---- MODULE Spec2Model ----
(***************************************************************************)
(* Note-to-fretboard mapping engine of archihyang/Music.                   *)
(*                                                                         *)
(* Two converters are modelled side by side:                               *)
(*   M  MidiToTabConverter  (services/midi_to_tab_converter.py)            *)
(*   T  TabConverter        (services/tab_renderer/tab_converter.py)       *)
(*                                                                         *)
(* Times are integers in milliseconds (0.05 s = 50, 0.5 s = 500).          *)
(* The float difficulty of T (0..1) and its scores are kept as integers    *)
(* in units of 1/240; the float cost of M is kept in units of 1/2.         *)
(***************************************************************************)
EXTENDS Integers, Sequences, FiniteSets, TLC

VARIABLES
    conv,            \* "M" or "T": the converter the instance is
    config,          \* TabConfig / TabConfiguration of the instance
    timing,          \* tempo (BPM) and beats per measure of the call
    midi_notes,      \* the input notes of the calls
    pc,              \* position inside M.convert_midi_to_tab
    tab_notes,       \* M: tab_notes of the running call (T: measure.notes
                     \* handed to _detect_techniques on its own)
    chords,          \* M: chords of the running call
    warnings,        \* logger.warning records of the instance (pitches)
    position_cache,  \* T: self.position_cache
    results,         \* what each finished call returned, in call order
    probe,           \* the pitch of the last direct call of the resolver
    resolved,        \* the positions that call returned
    returned,        \* what another operation, called on its own, returned
    calls,           \* the calls and tasks in flight: position and locals of each
    job              \* the record of the job a service or endpoint works on

vars == <<conv, config, timing, midi_notes, pc, tab_notes, chords,
          warnings, position_cache, results, probe, resolved, returned,
          calls, job>>

----------------------------------------------------------------------------
(* Bounds of the model *)

MaxNotes == 3

MaxCalls == 2

MaxCached == 1

MaxTechNotes == 3

MaxFirstNotes == 2

MaxShapeNotes == 4

MaxThreads == 2

(* Program constants *)

MaxFret == 24

ChordTimeThreshold == 50

MinChordSize == 3

ChordTolerance == 50

ProximityThreshold == 500

STANDARD == <<40, 45, 50, 55, 59, 64>>

DROP_D == <<38, 45, 50, 55, 59, 64>>

(* Tuning.DADGAD as tab_converter.py spells it *)
DADGAD == <<38, 45, 50, 55, 45, 62>>

(* Tuning.DADGAD as midi_to_tab_converter.py spells it *)
M_DADGAD == <<38, 45, 50, 55, 57, 62>>

HALF_STEP_DOWN == <<39, 44, 49, 54, 58, 63>>

DROP_C == <<36, 43, 48, 53, 57, 62>>

OPEN_G == <<38, 43, 50, 55, 59, 62>>

OPEN_D == <<38, 45, 50, 54, 57, 62>>

BARITONE == <<28, 33, 38, 43, 47, 52>>

(* the presets of class Tuning of each converter *)
MTunings == {STANDARD, DROP_D, HALF_STEP_DOWN, OPEN_G, OPEN_D, M_DADGAD}

TTunings == {STANDARD, DROP_D, HALF_STEP_DOWN, DROP_C, OPEN_G, DADGAD, OPEN_D,
             BARITONE}

----------------------------------------------------------------------------
(* Generic helpers *)

Abs(x) == IF x < 0 THEN 0 - x ELSE x

Min2(a, b) == IF a <= b THEN a ELSE b

Range(s) == {s[i] : i \in 1..Len(s)}

RECURSIVE SumSeq(_)
SumSeq(s) == IF s = <<>> THEN 0 ELSE Head(s) + SumSeq(Tail(s))

RECURSIVE Flatten(_)
Flatten(ss) == IF ss = <<>> THEN <<>> ELSE Head(ss) \o Flatten(Tail(ss))

(* sorted(xs, key=start): Python's sort is stable; insertion after the last
   element whose key is not greater. key is an operator on elements. *)
RECURSIVE InsertByKey(_, _, _)
InsertByKey(x, kx, ks) ==
    \* ks: sequence of <<key, elem>> already sorted
    IF ks = <<>> THEN << <<kx, x>> >>
    ELSE IF Head(ks)[1] <= kx THEN <<Head(ks)>> \o InsertByKey(x, kx, Tail(ks))
    ELSE << <<kx, x>> >> \o ks

SortedByStartM(ns) ==
    LET F[i \in 0..Len(ns)] ==
            IF i = 0 THEN <<>>
            ELSE InsertByKey(ns[i], ns[i].start_time, F[i - 1])
    IN  [i \in 1..Len(ns) |-> F[Len(ns)][i][2]]

SortedByStart(ns) ==
    LET F[i \in 0..Len(ns)] ==
            IF i = 0 THEN <<>>
            ELSE InsertByKey(ns[i], ns[i].start, F[i - 1])
    IN  [i \in 1..Len(ns) |-> F[Len(ns)][i][2]]

----------------------------------------------------------------------------
(* M: MidiToTabConverter *)

NoProbe == 0 - 1

NonePos == <<0, 0>>

(* self.tuning = [note + self.config.capo for note in self.config.tuning] *)
MTuning(cfg) == [i \in 1..Len(cfg.tuning) |-> cfg.tuning[i] + cfg.capo]

(* _get_fret_positions with the fret ceiling excluded (fret < max_fret) *)
GetFretPositions_ExclusiveCeiling(cfg, midi_pitch) ==
    LET t == MTuning(cfg)
        F[i \in 0..Len(t)] ==
            IF i = 0 THEN <<>>
            ELSE LET fret == midi_pitch - t[i]
                 IN  IF 0 <= fret /\ fret < MaxFret
                     THEN Append(F[i - 1], <<i, fret>>)
                     ELSE F[i - 1]
    IN  F[Len(t)]

(* _get_fret_positions: (string, fret) in string order *)
GetFretPositions(cfg, midi_pitch) ==
    LET t == MTuning(cfg)
        F[i \in 0..Len(t)] ==
            IF i = 0 THEN <<>>
            ELSE LET fret == midi_pitch - t[i]
                 IN  IF 0 <= fret /\ fret <= MaxFret
                     THEN Append(F[i - 1], <<i, fret>>)
                     ELSE F[i - 1]
    IN  F[Len(t)]

(* index of the last element of a non-empty integer sequence that is minimal *)
ArgMinFirst_Last(costs) ==
    CHOOSE i \in 1..Len(costs) :
        /\ \A j \in 1..Len(costs) : costs[i] <= costs[j]
        /\ \A j \in (i + 1)..Len(costs) : costs[j] > costs[i]

(* index of the first element of a non-empty integer sequence that is minimal *)
ArgMinFirst(costs) ==
    CHOOSE i \in 1..Len(costs) :
        /\ \A j \in 1..Len(costs) : costs[i] <= costs[j]
        /\ \A j \in 1..(i - 1) : costs[j] > costs[i]

(* cost of one candidate, doubled (the 0.5 factor of the high-fret term) *)
MPositionCost2(cfg, pos, previous, melodic) ==
    LET string_diff == Abs(pos[1] - previous[1])
        fret_diff   == Abs(pos[2] - previous[2])
    IN  2 * (string_diff * 3 + fret_diff)
        + (IF fret_diff > cfg.max_fret_span
           THEN 2 * (fret_diff - cfg.max_fret_span) * 5 ELSE 0)
        + (IF melodic THEN 2 * string_diff * 2 ELSE 0)
        + (IF cfg.prefer_low_positions /\ pos[2] > 12 THEN pos[2] - 12 ELSE 0)

(* _select_optimal_position taking the middle of the list whatever the
   preference is *)
MSelectOptimalPosition_MidNeck(cfg, positions, previous, melodic) ==
    IF previous = NonePos
    THEN positions[(Len(positions) \div 2) + 1]
    ELSE positions[ArgMinFirst([i \in 1..Len(positions) |->
                        MPositionCost2(cfg, positions[i], previous, melodic)])]

(* M._select_optimal_position; positions is non-empty at its only call *)
MSelectOptimalPosition(cfg, positions, previous, melodic) ==
    IF previous = NonePos
    THEN IF cfg.prefer_low_positions
         THEN positions[ArgMinFirst([i \in 1..Len(positions) |-> positions[i][2]])]
         ELSE positions[(Len(positions) \div 2) + 1]
    ELSE positions[ArgMinFirst([i \in 1..Len(positions) |->
                        MPositionCost2(cfg, positions[i], previous, melodic)])]

(* the alternatives with the chosen position left in *)
MAlternatives_All(positions, optimal_pos) == positions

MAlternatives(positions, optimal_pos) ==
    SelectSeq(positions, LAMBDA p : p # optimal_pos)

(* the loop body of _convert_to_tab_notes skipping an out-of-range note
   without logging it *)
MConvertStep_NoWarning(cfg, st, midi_note) ==
    LET positions == GetFretPositions(cfg, midi_note.pitch)
    IN  IF positions = <<>>
        THEN st
        ELSE LET optimal_pos ==
                     MSelectOptimalPosition(cfg, positions, st.prev, FALSE)
             IN  [tab  |-> Append(st.tab,
                              [string      |-> optimal_pos[1],
                               fret        |-> optimal_pos[2],
                               start_time  |-> midi_note.start,
                               duration    |-> midi_note.end - midi_note.start,
                               technique   |-> "NORMAL",
                               velocity    |-> midi_note.velocity,
                               alternatives |-> MAlternatives(positions, optimal_pos)]),
                  warn |-> st.warn,
                  prev |-> optimal_pos]

(* one iteration of the loop of _convert_to_tab_notes *)
MConvertStep(cfg, st, midi_note) ==
    LET positions == GetFretPositions(cfg, midi_note.pitch)
    IN  IF positions = <<>>
        THEN [st EXCEPT !.warn = Append(@, midi_note.pitch)]
        ELSE LET optimal_pos ==
                     MSelectOptimalPosition(cfg, positions, st.prev, FALSE)
             IN  [tab  |-> Append(st.tab,
                              [string      |-> optimal_pos[1],
                               fret        |-> optimal_pos[2],
                               start_time  |-> midi_note.start,
                               duration    |-> midi_note.end - midi_note.start,
                               technique   |-> "NORMAL",
                               velocity    |-> midi_note.velocity,
                               alternatives |-> MAlternatives(positions, optimal_pos)]),
                  warn |-> st.warn,
                  prev |-> optimal_pos]

(* _convert_to_tab_notes: the tab notes and the warnings logged *)
MConvertToTabNotes(cfg, notes) ==
    LET F[i \in 0..Len(notes)] ==
            IF i = 0 THEN [tab |-> <<>>, warn |-> <<>>, prev |-> NonePos]
            ELSE MConvertStep(cfg, F[i - 1], notes[i])
    IN  F[Len(notes)]

(* pitch classes named by _identify_chord *)
RootNames == <<"C", "C#", "D", "D#", "E", "F", "F#", "G", "G#", "A", "A#", "B">>

(* chord_patterns of _identify_chord, in dict order *)
ChordPatterns ==
    << [type |-> "major", pattern |-> {0, 4, 7}],
       [type |-> "minor", pattern |-> {0, 3, 7}],
       [type |-> "7",     pattern |-> {0, 4, 7, 10}],
       [type |-> "maj7",  pattern |-> {0, 4, 7, 11}],
       [type |-> "m7",    pattern |-> {0, 3, 7, 10}],
       [type |-> "sus2",  pattern |-> {0, 2, 7}],
       [type |-> "sus4",  pattern |-> {0, 5, 7}],
       [type |-> "dim",   pattern |-> {0, 3, 6}],
       [type |-> "aug",   pattern |-> {0, 4, 8}] >>

(* _load_chord_shapes: the shapes stored under root + chord_type *)
ChordShapes(root, type) ==
    IF root = "C" /\ type = "major" THEN << [name |-> "open", positions |-> {<<2, 3>>, <<3, 2>>, <<5, 1>>}] >>
    ELSE IF root = "G" /\ type = "major" THEN << [name |-> "open", positions |-> {<<1, 3>>, <<2, 3>>, <<6, 3>>}] >>
    ELSE IF root = "D" /\ type = "major" THEN << [name |-> "open", positions |-> {<<1, 2>>, <<2, 3>>, <<3, 2>>}] >>
    ELSE IF root = "A" /\ type = "minor" THEN << [name |-> "open", positions |-> {<<2, 2>>, <<3, 2>>, <<4, 1>>}] >>
    ELSE IF root = "E" /\ type = "minor" THEN << [name |-> "open", positions |-> {<<3, 2>>, <<4, 2>>}] >>
    ELSE <<>>

NoShape == [kind |-> "none", name |-> "", fret |-> 0]

(* _find_chord_shape: a stored shape, else "Barre n", else None *)
MFindChordShape(group, root, type) ==
    LET positions_set == {<<group[i].string, group[i].fret>> : i \in 1..Len(group)}
        shapes == ChordShapes(root, type)
        hits   == {k \in 1..Len(shapes) : shapes[k].positions \subseteq positions_set}
        frets  == {group[i].fret : i \in {j \in 1..Len(group) : group[j].fret > 0}}
    IN  IF hits # {}
        THEN [kind |-> "named",
              name |-> shapes[CHOOSE k \in hits : \A l \in hits : k <= l].name,
              fret |-> 0]
        ELSE IF frets # {} /\ Cardinality(frets) = 1
        THEN [kind |-> "barre", name |-> "Barre", fret |-> CHOOSE f \in frets : TRUE]
        ELSE NoShape

NoChordInfo == [found |-> FALSE, root |-> "", type |-> "", shape |-> NoShape, pitches |-> <<>>]

(* _identify_chord: the first (root_pc, chord_type) whose pattern lies in the
   pitch classes; None when there is none *)
MIdentifyChord(pitches, group) ==
    LET pitch_classes == {pitches[i] % 12 : i \in 1..Len(pitches)}
        np   == Len(ChordPatterns)
        Test(k) == {((k \div np) + iv) % 12 : iv \in ChordPatterns[(k % np) + 1].pattern}
        hits == {k \in 0..(12 * np - 1) : Test(k) \subseteq pitch_classes}
    IN  IF hits = {} THEN NoChordInfo
        ELSE LET k    == CHOOSE h \in hits : \A l \in hits : h <= l
                 root == RootNames[(k \div np) + 1]
                 type == ChordPatterns[(k % np) + 1].type
             IN  [found |-> TRUE, root |-> root, type |-> type,
                  shape |-> MFindChordShape(group, root, type),
                  pitches |-> pitches]

(* the grouping loop of _detect_chords: note_groups, in order *)
MNoteGroups(notes) ==
    LET sorted == SortedByStartM(notes)
        F[i \in 0..Len(sorted)] ==
            IF i = 0 THEN [groups |-> <<>>, cur |-> <<>>]
            ELSE LET st   == F[i - 1]
                     note == sorted[i]
                 IN  IF st.cur = <<>>
                        \/ Abs(note.start_time - st.cur[Len(st.cur)].start_time)
                               < ChordTimeThreshold
                     THEN [st EXCEPT !.cur = Append(@, note)]
                     ELSE [groups |-> IF Len(st.cur) >= MinChordSize
                                      THEN Append(st.groups, st.cur)
                                      ELSE st.groups,
                           cur    |-> <<note>>]
        last == F[Len(sorted)]
    IN  IF Len(last.cur) >= MinChordSize
        THEN Append(last.groups, last.cur) ELSE last.groups

MaxOfSeq(s) == CHOOSE m \in Range(s) : \A x \in Range(s) : x <= m

(* the chord dict of one group, or found = FALSE when _identify_chord gives None *)
MChordOfGroup(cfg, group) ==
    LET t       == MTuning(cfg)
        pitches == [i \in 1..Len(group) |-> t[group[i].string] + group[i].fret]
        info    == MIdentifyChord(pitches, group)
    IN  [found         |-> info.found,
         time          |-> group[1].start_time,
         duration      |-> MaxOfSeq([i \in 1..Len(group) |-> group[i].duration]),
         chord         |-> info,
         tab_positions |-> [i \in 1..Len(group) |-> <<group[i].string, group[i].fret>>]]

(* _detect_chords *)
MDetectChords(cfg, notes) ==
    LET groups == MNoteGroups(notes)
        all    == [g \in 1..Len(groups) |-> MChordOfGroup(cfg, groups[g])]
    IN  SelectSeq(all, LAMBDA c : c.found)

(* the technique _detect_techniques leaves on tab_notes[i] *)
MTechniqueAt(notes, i) ==
    IF i = 1 THEN notes[i].technique
    ELSE LET prev_note == notes[i - 1]
             curr_note == notes[i]
             time_diff == curr_note.start_time - prev_note.start_time
             fret_diff == curr_note.fret - prev_note.fret
         IN  IF prev_note.string # curr_note.string THEN curr_note.technique
             ELSE IF fret_diff > 0 /\ time_diff < 100
                     /\ curr_note.velocity < prev_note.velocity THEN "HAMMER_ON"
             ELSE IF fret_diff < 0 /\ time_diff < 100
                     /\ curr_note.velocity < prev_note.velocity THEN "PULL_OFF"
             ELSE IF Abs(fret_diff) > 1 /\ time_diff < 200
             THEN IF fret_diff > 0 THEN "SLIDE_UP" ELSE "SLIDE_DOWN"
             ELSE curr_note.technique

(* M._detect_techniques *)
MDetectTechniques(notes) ==
    [i \in 1..Len(notes) |-> [notes[i] EXCEPT !.technique = MTechniqueAt(notes, i)]]

(* beat_duration = 60.0 / tempo raises ZeroDivisionError *)
TempoRaises(tm) == tm.tempo = 0

(* measure_duration = beats_per_measure * (60.0 / tempo), in ms *)
MeasureDuration(tm) == (tm.beats * 60000) \div tm.tempo

(* chords=[c for c in chords if measure_start <= c['time'] < measure_start + d] *)
MChordsInWindow(cs, measure_start, measure_duration) ==
    SelectSeq(cs, LAMBDA c : measure_start <= c.time
                             /\ c.time < measure_start + measure_duration)

(* the chords of the last measure taken with c['time'] > measure_start *)
MChordsFrom_Strict(cs, measure_start) ==
    SelectSeq(cs, LAMBDA c : c.time > measure_start)

(* chords=[c for c in chords if c['time'] >= measure_start] *)
MChordsFrom(cs, measure_start) ==
    SelectSeq(cs, LAMBDA c : c.time >= measure_start)

(* the loop body of _organize_measures putting a note in front of the
   current measure instead of at its end *)
MOrganizeStep_Prepend(st, note, cs, measure_duration) ==
    IF note.start_time < st.measure_start + measure_duration
    THEN [st EXCEPT !.cur = <<note>> \o @]
    ELSE [measures |-> Append(st.measures,
                          [measure_number |-> st.measure_num,
                           notes  |-> st.cur,
                           chords |-> SelectSeq(cs, LAMBDA c :
                                         st.measure_start <= c.time
                                         /\ c.time < st.measure_start + measure_duration)]),
          cur |-> <<note>>,
          measure_start |-> st.measure_start + measure_duration,
          measure_num   |-> st.measure_num + 1]

(* the loop body of _organize_measures keeping a note that starts on the
   end of the current measure in it *)
MOrganizeStep_InclusiveEnd(st, note, cs, measure_duration) ==
    IF note.start_time <= st.measure_start + measure_duration
    THEN [st EXCEPT !.cur = Append(@, note)]
    ELSE [measures |-> Append(st.measures,
                          [measure_number |-> st.measure_num,
                           notes  |-> st.cur,
                           chords |-> MChordsInWindow(cs, st.measure_start,
                                                      measure_duration)]),
          cur |-> <<note>>,
          measure_start |-> st.measure_start + measure_duration,
          measure_num   |-> st.measure_num + 1]

(* one iteration of the loop of _organize_measures *)
MOrganizeStep(st, note, cs, measure_duration) ==
    IF note.start_time < st.measure_start + measure_duration
    THEN [st EXCEPT !.cur = Append(@, note)]
    ELSE [measures |-> Append(st.measures,
                          [measure_number |-> st.measure_num,
                           notes  |-> st.cur,
                           chords |-> MChordsInWindow(cs, st.measure_start,
                                                      measure_duration)]),
          cur |-> <<note>>,
          measure_start |-> st.measure_start + measure_duration,
          measure_num   |-> st.measure_num + 1]

(* M._organize_measures *)
MOrganizeMeasures(notes, cs, tm) ==
    LET measure_duration == MeasureDuration(tm)
        F[i \in 0..Len(notes)] ==
            IF i = 0 THEN [measures |-> <<>>, cur |-> <<>>,
                           measure_start |-> 0, measure_num |-> 1]
            ELSE MOrganizeStep(F[i - 1], notes[i], cs, measure_duration)
        last == F[Len(notes)]
    IN  IF last.cur # <<>>
        THEN Append(last.measures,
                    [measure_number |-> last.measure_num,
                     notes  |-> last.cur,
                     chords |-> MChordsFrom(cs, last.measure_start)])
        ELSE last.measures

(* the dict convert_midi_to_tab returns (tab_notation, a rendering of the
   measures, is left out), or the exception _organize_measures raises *)
MResult(notes, cs, tm) ==
    IF TempoRaises(tm) THEN [status |-> "error", measures |-> <<>>]
    ELSE
    LET ms == MOrganizeMeasures(notes, cs, tm)
    IN  [status |-> "ok", measures |-> ms,
         total_notes |-> Len(notes), total_measures |-> Len(ms),
         detected_chords |-> Len(cs)]

----------------------------------------------------------------------------
(* T: TabConverter and ChordShapeDetector *)

(* the permutation sorted(xs, key=...) applies: the indices of keys in
   ascending key order, equal keys in their original order *)
SortedIndices(keys) ==
    LET F[i \in 0..Len(keys)] ==
            IF i = 0 THEN <<>> ELSE InsertByKey(i, keys[i], F[i - 1])
    IN  [i \in 1..Len(keys) |-> F[Len(keys)][i][2]]

(* _calculate_difficulty, in units of 1/240 *)
CalculateDifficulty(string, fret) ==
    IF fret = 0 THEN 0
    ELSE Min2(3 * fret
              + (IF fret > 12 THEN 6 * (fret - 12) ELSE 0)
              + (IF string = 1 \/ string = 6 THEN 24 ELSE 0)
              + (IF string <= 3 /\ fret > 15 THEN 48 ELSE 0),
              240)

(* _get_hand_position *)
GetHandPosition(fret) ==
    IF fret = 0 THEN 0
    ELSE IF fret <= 4 THEN 1
    ELSE IF fret <= 7 THEN 5
    ELSE IF fret <= 10 THEN 8
    ELSE IF fret <= 14 THEN 12
    ELSE 15

(* the loop of _find_positions without the lower bound (fret <= 24 only) *)
ComputePositions_NoLowerBound(cfg, pitch) ==
    LET t == cfg.tuning
        F[i \in 0..Len(t)] ==
            IF i = 0 THEN <<>>
            ELSE LET fret == pitch - t[i]
                 IN  IF fret <= 24
                     THEN Append(F[i - 1],
                                 [string     |-> i,
                                  fret       |-> fret,
                                  difficulty |-> CalculateDifficulty(i, fret),
                                  is_open    |-> (fret = 0),
                                  position   |-> GetHandPosition(fret)])
                     ELSE F[i - 1]
    IN  F[Len(t)]

(* the loop of _find_positions *)
ComputePositions(cfg, pitch) ==
    LET t == cfg.tuning
        F[i \in 0..Len(t)] ==
            IF i = 0 THEN <<>>
            ELSE LET fret == pitch - t[i]
                 IN  IF 0 <= fret /\ fret <= 24
                     THEN Append(F[i - 1],
                                 [string     |-> i,
                                  fret       |-> fret,
                                  difficulty |-> CalculateDifficulty(i, fret),
                                  is_open    |-> (fret = 0),
                                  position   |-> GetHandPosition(fret)])
                     ELSE F[i - 1]
    IN  F[Len(t)]

(* a cache entry that keeps only the first position computed *)
CacheEntry_FirstOnly(positions) ==
    IF positions = <<>> THEN <<>> ELSE <<positions[1]>>

(* a cache entry that leaves out the open-string position *)
CacheEntry_WithoutOpen(positions) ==
    SelectSeq(positions, LAMBDA q : ~q.is_open)

(* what _find_positions stores under a pitch it has computed *)
CacheEntry(positions) == positions

(* _find_positions: the list returned *)
FindPositions(cache, cfg, pitch) ==
    IF pitch \in DOMAIN cache THEN cache[pitch] ELSE ComputePositions(cfg, pitch)

(* _find_positions: self.position_cache afterwards *)
CacheAfterFind(cache, cfg, pitch) ==
    IF pitch \in DOMAIN cache THEN cache
    ELSE [q \in (DOMAIN cache) \cup {pitch} |->
             IF q = pitch THEN CacheEntry(ComputePositions(cfg, pitch))
             ELSE cache[q]]

(* the test of _filter_positions for one position *)
PassesFilter(cfg, pos) ==
    /\ ~(pos.fret > cfg.max_position /\ ~pos.is_open)
    /\ ~(pos.difficulty > cfg.difficulty_threshold)

(* _filter_positions *)
FilterPositions(cfg, positions) ==
    SelectSeq(positions, LAMBDA pos : PassesFilter(cfg, pos))

(* the score of one candidate in T._select_optimal_position, in units of 1/240 *)
TPositionScore(cfg, pos, previous_notes) ==
    (IF cfg.prefer_open_strings /\ pos.is_open THEN 480 ELSE 0)
    + (IF cfg.prefer_low_positions THEN 20 * (12 - pos.fret) ELSE 0)
    - (IF previous_notes # <<>>
       THEN LET last_note == previous_notes[Len(previous_notes)]
            IN  120 * Abs(pos.position - GetHandPosition(last_note.fret))
                + 48 * Abs(pos.string - last_note.string)
       ELSE 0)
    - 2 * pos.difficulty

(* T._select_optimal_position on a non-empty list: the first candidate of the
   highest score (a stable sort by score, highest first) *)
TSelectOptimalPosition(cfg, positions, previous_notes) ==
    IF Len(positions) = 1 THEN positions[1]
    ELSE positions[ArgMinFirst([i \in 1..Len(positions) |->
                        0 - TPositionScore(cfg, positions[i], previous_notes)])]

(* ChordShapeDetector.COMMON_SHAPES, in dict order *)
COMMON_SHAPES ==
    << [name |-> "C",  shape |-> << <<1, 0>>, <<2, 1>>, <<3, 0>>, <<4, 2>>, <<5, 3>> >>],
       [name |-> "G",  shape |-> << <<1, 3>>, <<2, 0>>, <<3, 0>>, <<4, 0>>, <<5, 2>>, <<6, 3>> >>],
       [name |-> "D",  shape |-> << <<1, 2>>, <<2, 3>>, <<3, 2>>, <<4, 0>> >>],
       [name |-> "A",  shape |-> << <<1, 0>>, <<2, 2>>, <<3, 2>>, <<4, 2>>, <<5, 0>> >>],
       [name |-> "E",  shape |-> << <<1, 0>>, <<2, 0>>, <<3, 1>>, <<4, 2>>, <<5, 2>>, <<6, 0>> >>],
       [name |-> "F",  shape |-> << <<1, 1>>, <<2, 1>>, <<3, 2>>, <<4, 3>>, <<5, 3>>, <<6, 1>> >>],
       [name |-> "Am", shape |-> << <<1, 0>>, <<2, 1>>, <<3, 2>>, <<4, 2>>, <<5, 0>> >>],
       [name |-> "Em", shape |-> << <<1, 0>>, <<2, 0>>, <<3, 0>>, <<4, 2>>, <<5, 2>>, <<6, 0>> >>],
       [name |-> "Dm", shape |-> << <<1, 1>>, <<2, 3>>, <<3, 2>>, <<4, 0>> >>],
       [name |-> "G7", shape |-> << <<1, 1>>, <<2, 0>>, <<3, 0>>, <<4, 0>>, <<5, 2>>, <<6, 3>> >>],
       [name |-> "C7", shape |-> << <<1, 0>>, <<2, 1>>, <<3, 3>>, <<4, 2>>, <<5, 3>> >>],
       [name |-> "D7", shape |-> << <<1, 2>>, <<2, 1>>, <<3, 2>>, <<4, 0>> >>] >>

MinOfSet(S) == CHOOSE m \in S : \A x \in S : m <= x

(* _matches_shape raises ValueError: min() of an empty sequence *)
MatchesShapeRaises(positions, shape) ==
    /\ Len(positions) = Len(shape)
    /\ \A i \in 1..Len(positions) : positions[i][2] <= 0

(* _matches_shape, where it does not raise *)
MatchesShape(positions, shape) ==
    /\ Len(positions) = Len(shape)
    /\ LET min_fret_positions ==
               MinOfSet({positions[i][2] : i \in {j \in 1..Len(positions) : positions[j][2] > 0}})
           min_fret_shape ==
               MinOfSet({shape[i][2] : i \in {j \in 1..Len(shape) : shape[j][2] > 0}})
           offset == min_fret_positions - min_fret_shape
           adjusted_shape ==
               {<<shape[i][1], IF shape[i][2] > 0 THEN shape[i][2] + offset ELSE 0>> :
                    i \in 1..Len(shape)}
       IN  \A i \in 1..Len(positions) : positions[i] \in adjusted_shape

(* detect_chord_shape on the (string, fret) list of the notes:
   raised, or the name of the first shape that matches ("" for None) *)
DetectChordShape(positions) ==
    IF Len(positions) < 3 THEN [raised |-> FALSE, name |-> ""]
    ELSE LET n == Len(COMMON_SHAPES)
             \* the first shape at which the loop stops: it raises or matches
             Stops(k) == \/ MatchesShapeRaises(positions, COMMON_SHAPES[k].shape)
                         \/ MatchesShape(positions, COMMON_SHAPES[k].shape)
             stops == {k \in 1..n : Stops(k)}
         IN  IF stops = {} THEN [raised |-> FALSE, name |-> ""]
             ELSE LET k == MinOfSet(stops)
                  IN  IF MatchesShapeRaises(positions, COMMON_SHAPES[k].shape)
                      THEN [raised |-> TRUE, name |-> ""]
                      ELSE [raised |-> FALSE, name |-> COMMON_SHAPES[k].name]

(* _group_into_measures: the measures as lists of indices into notes *)
TGroupIntoMeasures(notes, tm) ==
    IF notes = <<>> THEN <<>>
    ELSE
    LET measure_duration == MeasureDuration(tm)
        perm == SortedIndices([i \in 1..Len(notes) |-> notes[i].start])
        F[i \in 0..Len(perm)] ==
            IF i = 0 THEN [measures |-> <<>>, cur |-> <<>>, measure_start_time |-> 0]
            ELSE LET st == F[i - 1]
                 IN  IF notes[perm[i]].start >= st.measure_start_time + measure_duration
                     THEN [measures |-> IF st.cur # <<>>
                                        THEN Append(st.measures, st.cur)
                                        ELSE st.measures,
                           cur |-> <<perm[i]>>,
                           measure_start_time |-> st.measure_start_time + measure_duration]
                     ELSE [st EXCEPT !.cur = Append(@, perm[i])]
        last == F[Len(perm)]
    IN  IF last.cur # <<>> THEN Append(last.measures, last.cur) ELSE last.measures

(* _detect_chord_groups on the notes of one measure (indices into notes) *)
TDetectChordGroups(notes, measure_notes) ==
    LET perm == SortedIndices([k \in 1..Len(measure_notes) |-> notes[measure_notes[k]].start])
        F[i \in 0..Len(perm)] ==
            IF i = 0 THEN [groups |-> <<>>, cur |-> <<>>, group_start |-> 0]
            ELSE LET st  == F[i - 1]
                     idx == measure_notes[perm[i]]
                 IN  IF i = 1
                     THEN [groups |-> <<>>, cur |-> <<idx>>, group_start |-> notes[idx].start]
                     ELSE IF Abs(notes[idx].start - st.group_start) <= ChordTolerance
                     THEN [st EXCEPT !.cur = Append(@, idx)]
                     ELSE [groups |-> IF Len(st.cur) >= 2
                                      THEN Append(st.groups, st.cur) ELSE st.groups,
                           cur |-> <<idx>>,
                           group_start |-> notes[idx].start]
        last == F[Len(perm)]
    IN  IF Len(last.cur) >= 2 THEN Append(last.groups, last.cur) ELSE last.groups

(* the end of _assign_chord_fingerings: detect_chord_shape on temp_notes and
   the marks on the input dicts; last is the cache and temp_notes of the loop *)
TMarkChordNotes(st, chord_notes, last) ==
    LET found == DetectChordShape(last.temp)
    IN  IF found.raised
        THEN [st EXCEPT !.cache = last.cache, !.raised = TRUE]
        ELSE IF found.name # ""
        THEN [st EXCEPT !.cache = last.cache,
                        !.notes = [j \in 1..Len(st.notes) |->
                                      IF j \in Range(chord_notes)
                                      THEN [st.notes[j] EXCEPT !.chord_shape = found.name,
                                                               !.is_chord_tone = TRUE]
                                      ELSE st.notes[j]]]
        ELSE [st EXCEPT !.cache = last.cache]

(* _assign_chord_fingerings on one group; st carries the cache, the input
   dicts (which it marks) and whether detect_chord_shape raised *)
TAssignChordFingerings(st, cfg, chord_notes) ==
    LET F[i \in 0..Len(chord_notes)] ==
            IF i = 0 THEN [cache |-> st.cache, temp |-> <<>>]
            ELSE LET pitch     == st.notes[chord_notes[i]].pitch
                     positions == FindPositions(F[i - 1].cache, cfg, pitch)
                 IN  [cache |-> CacheAfterFind(F[i - 1].cache, cfg, pitch),
                      temp  |-> IF positions # <<>>
                                THEN Append(F[i - 1].temp,
                                            <<positions[1].string, positions[1].fret>>)
                                ELSE F[i - 1].temp]
    IN  TMarkChordNotes(st, chord_notes, F[Len(chord_notes)])

(* _convert_note: the notes returned, the cache and the warning logged *)
TConvertNote(cache, cfg, note_data, measure_notes) ==
    LET pitch          == note_data.pitch
        adjusted_pitch == pitch - cfg.capo
        found          == FindPositions(cache, cfg, adjusted_pitch)
        positions      == FilterPositions(cfg, found)
        cache1         == CacheAfterFind(cache, cfg, adjusted_pitch)
    IN  IF positions = <<>>
        THEN [notes |-> <<>>, cache |-> cache1, warn |-> <<pitch>>]
        ELSE LET optimal_pos == TSelectOptimalPosition(cfg, positions, measure_notes)
             IN  [notes |-> << [pitch         |-> pitch,
                                start_time    |-> note_data.start,
                                end_time      |-> note_data.end,
                                string        |-> optimal_pos.string,
                                fret          |-> optimal_pos.fret,
                                velocity      |-> note_data.velocity,
                                techniques    |-> <<>>,
                                is_chord_tone |-> FALSE,
                                chord_shape   |-> "",
                                difficulty    |-> optimal_pos.difficulty] >>,
                  cache |-> cache1,
                  warn  |-> <<>>]

(* _group_by_time_proximity: groups as lists of indices into notes *)
GroupByTimeProximity(notes) ==
    LET perm == SortedIndices([k \in 1..Len(notes) |-> notes[k].start_time])
        F[i \in 0..Len(perm)] ==
            IF i = 0 THEN [groups |-> <<>>, cur |-> <<>>]
            ELSE LET st == F[i - 1]
                 IN  IF st.cur = <<>>
                     THEN [st EXCEPT !.cur = <<perm[i]>>]
                     ELSE IF notes[perm[i]].start_time - notes[st.cur[Len(st.cur)]].end_time
                                <= ProximityThreshold
                     THEN [st EXCEPT !.cur = Append(@, perm[i])]
                     ELSE [groups |-> Append(st.groups, st.cur), cur |-> <<perm[i]>>]
        last == F[Len(perm)]
    IN  IF last.cur # <<>> THEN Append(last.groups, last.cur) ELSE last.groups

(* the first alternative inside the span of the target position; 0 if none *)
FirstAlternativeInSpan(cfg, alternatives, target_position) ==
    LET fit == {k \in 1..Len(alternatives) :
                   Abs(GetHandPosition(alternatives[k].fret) - target_position)
                       <= cfg.max_fret_span}
    IN  IF fit = {} THEN 0 ELSE MinOfSet(fit)

(* _optimize_group_fingering on one group (indices into st.notes) *)
TOptimizeGroupFingering(st, cfg, group) ==
    LET avg_fret == SumSeq([k \in 1..Len(group) |-> st.notes[group[k]].fret])
                        \div Len(group)
        target_position == GetHandPosition(avg_fret)
        F[i \in 0..Len(group)] ==
            IF i = 0 THEN st
            ELSE LET s    == F[i - 1]
                     note == s.notes[group[i]]
                 IN  IF Abs(GetHandPosition(note.fret) - target_position)
                            > cfg.max_fret_span
                     THEN LET alternatives == FindPositions(s.cache, cfg, note.pitch)
                              k == FirstAlternativeInSpan(cfg, alternatives, target_position)
                          IN  [cache |-> CacheAfterFind(s.cache, cfg, note.pitch),
                               notes |-> IF k = 0 THEN s.notes
                                         ELSE [s.notes EXCEPT
                                                 ![group[i]].string = alternatives[k].string,
                                                 ![group[i]].fret = alternatives[k].fret,
                                                 ![group[i]].difficulty = alternatives[k].difficulty]]
                     ELSE s
    IN  F[Len(group)]

(* _optimize_measure_fingering; st is the cache and measure.notes *)
TOptimizeMeasureFingering(st, cfg) ==
    IF Len(st.notes) < 2 THEN st
    ELSE LET note_groups == GroupByTimeProximity(st.notes)
             F[g \in 0..Len(note_groups)] ==
                 IF g = 0 THEN st
                 ELSE IF Len(note_groups[g]) > 1
                 THEN TOptimizeGroupFingering(F[g - 1], cfg, note_groups[g])
                 ELSE F[g - 1]
         IN  F[Len(note_groups)]

HarmonicFrets == {12, 7, 5, 4, 3}

(* the tags of _detect_techniques with the palm mute given at velocity 40
   too and the harmonic at velocity 100 too *)
TTechniquesAt_InclusiveFloors(notes, i) ==
    LET current == notes[i]
    IN  (IF i > 1 /\ current.string = notes[i - 1].string
            /\ Abs(current.start_time - notes[i - 1].end_time) < 50
         THEN IF current.fret > notes[i - 1].fret THEN <<"HAMMER_ON">>
              ELSE IF current.fret < notes[i - 1].fret THEN <<"PULL_OFF">>
              ELSE <<>>
         ELSE <<>>)
        \o
        (IF i < Len(notes) /\ current.string = notes[i + 1].string
            /\ current.end_time >= notes[i + 1].start_time
            /\ Abs(current.fret - notes[i + 1].fret) >= 2
         THEN IF notes[i + 1].fret > current.fret THEN <<"SLIDE_UP">>
              ELSE <<"SLIDE_DOWN">>
         ELSE <<>>)
        \o
        (IF current.velocity <= 40 THEN <<"PALM_MUTE">> ELSE <<>>)
        \o
        (IF current.fret \in {12, 7, 5, 4, 3} /\ current.velocity >= 100
         THEN <<"HARMONIC">> ELSE <<>>)

(* the techniques T._detect_techniques appends to notes[i] of the sorted list *)
TTechniquesAt(notes, i) ==
    LET current == notes[i]
    IN  (IF i > 1 /\ current.string = notes[i - 1].string
            /\ Abs(current.start_time - notes[i - 1].end_time) < 50
         THEN IF current.fret > notes[i - 1].fret THEN <<"HAMMER_ON">>
              ELSE IF current.fret < notes[i - 1].fret THEN <<"PULL_OFF">>
              ELSE <<>>
         ELSE <<>>)
        \o
        (IF i < Len(notes) /\ current.string = notes[i + 1].string
            /\ current.end_time >= notes[i + 1].start_time
            /\ Abs(current.fret - notes[i + 1].fret) >= 2
         THEN IF notes[i + 1].fret > current.fret THEN <<"SLIDE_UP">>
              ELSE <<"SLIDE_DOWN">>
         ELSE <<>>)
        \o
        (IF current.velocity < 40 THEN <<"PALM_MUTE">> ELSE <<>>)
        \o
        (IF current.fret \in HarmonicFrets /\ current.velocity > 100
         THEN <<"HARMONIC">> ELSE <<>>)

(* T._detect_techniques: measure.notes afterwards *)
TDetectTechniques(mnotes) ==
    LET perm   == SortedIndices([k \in 1..Len(mnotes) |-> mnotes[k].start_time])
        sorted == [i \in 1..Len(perm) |-> mnotes[perm[i]]]
    IN  [j \in 1..Len(mnotes) |->
            LET i == CHOOSE x \in 1..Len(perm) : perm[x] = j
            IN  [mnotes[j] EXCEPT !.techniques = @ \o TTechniquesAt(sorted, i)]]

(* step 3 of the measure loop of T.convert_midi_to_tab: the chord groups
   fingered; the cache, the input dicts and whether an exception was raised *)
TMeasureChords(st, cfg, measure_notes) ==
    LET chord_groups == TDetectChordGroups(st.notes, measure_notes)
        A[g \in 0..Len(chord_groups)] ==
            IF g = 0 THEN [cache |-> st.cache, notes |-> st.notes, raised |-> FALSE]
            ELSE IF A[g - 1].raised THEN A[g - 1]
            ELSE TAssignChordFingerings(A[g - 1], cfg, chord_groups[g])
    IN  IF cfg.detect_chords THEN A[Len(chord_groups)]
        ELSE [cache |-> st.cache, notes |-> st.notes, raised |-> FALSE]

(* step 4: the notes of the measure converted one by one *)
TMeasureNotes(s1, cfg, measure_notes) ==
    LET C[i \in 0..Len(measure_notes)] ==
            IF i = 0 THEN [cache |-> s1.cache, notes |-> <<>>, warn |-> <<>>]
            ELSE LET r == TConvertNote(C[i - 1].cache, cfg,
                                       s1.notes[measure_notes[i]], C[i - 1].notes)
                 IN  [cache |-> r.cache,
                      notes |-> C[i - 1].notes \o r.notes,
                      warn  |-> C[i - 1].warn \o r.warn]
    IN  C[Len(measure_notes)]

(* step 5: the fingering of the measure optimized *)
TMeasureFingering(s2, cfg) ==
    IF cfg.optimize_fingering
    THEN TOptimizeMeasureFingering([cache |-> s2.cache, notes |-> s2.notes], cfg)
    ELSE [cache |-> s2.cache, notes |-> s2.notes]

(* step 6: the techniques added, and the measure appended to tab_measures *)
TMeasureTechniques(st, cfg, number, s1, s2, s3) ==
    [cache  |-> s3.cache,
     notes  |-> s1.notes,
     warn   |-> st.warn \o s2.warn,
     out    |-> Append(st.out,
                   [number |-> number,
                    notes  |-> IF cfg.include_techniques
                               THEN TDetectTechniques(s3.notes)
                               ELSE s3.notes]),
     raised |-> FALSE]

(* steps 4 to 6, on the notes step 4 has converted *)
TMeasureFromNotes(st, cfg, number, s1, s2) ==
    TMeasureTechniques(st, cfg, number, s1, s2, TMeasureFingering(s2, cfg))

(* steps 4 to 6 unless step 3 raised *)
TMeasureFromChords(st, cfg, measure_notes, number, s1) ==
    IF s1.raised
    THEN [st EXCEPT !.cache = s1.cache, !.notes = s1.notes, !.raised = TRUE]
    ELSE TMeasureFromNotes(st, cfg, number, s1, TMeasureNotes(s1, cfg, measure_notes))

(* one iteration of the measure loop of T.convert_midi_to_tab *)
TConvertMeasure(st, cfg, measure_notes, number) ==
    TMeasureFromChords(st, cfg, measure_notes, number,
                       TMeasureChords(st, cfg, measure_notes))

(* what T.convert_midi_to_tab returns and leaves behind, last being the state
   after the measure loop *)
TReturn(last) ==
    [cache  |-> last.cache,
     notes  |-> last.notes,
     warn   |-> last.warn,
     result |-> IF last.raised
                THEN [status |-> "error", measures |-> <<>>]
                ELSE [status |-> "ok", measures |-> last.out]]

(* T.convert_midi_to_tab: what it returns and the state it leaves *)
TConvertMidiToTab(cache, cfg, notes, tm) ==
    IF notes # <<>> /\ TempoRaises(tm)
    THEN [cache |-> cache, notes |-> notes, warn |-> <<>>,
          result |-> [status |-> "error", measures |-> <<>>]]
    ELSE
    LET measures == TGroupIntoMeasures(notes, tm)
        F[m \in 0..Len(measures)] ==
            IF m = 0 THEN [cache |-> cache, notes |-> notes, warn |-> <<>>,
                           out |-> <<>>, raised |-> FALSE]
            ELSE IF F[m - 1].raised THEN F[m - 1]
            ELSE TConvertMeasure(F[m - 1], cfg, measures[m], m)
    IN  TReturn(F[Len(measures)])

----------------------------------------------------------------------------
(* Inputs *)

MPitches == {28, 40, 45, 47, 51}

TPitches == {28, 40, 64, 76, 88}

Starts == {0, 30, 2000, 5000}

Durations == {500}

Velocities == {80}

NoteDomain(P, S, D, V) ==
    {[pitch |-> p, start |-> s, end |-> s + d, velocity |-> v,
      chord_shape |-> "", is_chord_tone |-> FALSE] :
        p \in P, s \in S, d \in D, v \in V}

IsTimeOrdered(ns) == \A i \in 1..(Len(ns) - 1) : ns[i].start <= ns[i + 1].start

NoteSeqs(dom) ==
    {ns \in UNION {[1..n -> dom] : n \in 0..MaxNotes} : IsTimeOrdered(ns)}

(* TabConfig with its defaults, tuning and capo given *)
MConfigsOf(tunings, capos) ==
    {[tuning |-> t, capo |-> c, max_fret_span |-> 4,
      prefer_low_positions |-> TRUE, detect_chords |-> TRUE,
      detect_techniques |-> TRUE] : t \in tunings, c \in capos}

MConfigs == MConfigsOf({STANDARD}, {0, 2})

(* TabConfiguration with its defaults (difficulty_threshold 0.7 = 168/240),
   tuning and capo_position given *)
TConfigsOf(tunings, capos) ==
    {[tuning |-> t, capo |-> c, max_fret_span |-> 4,
      prefer_open_strings |-> TRUE, prefer_low_positions |-> TRUE,
      max_position |-> 12, difficulty_threshold |-> 168,
      detect_chords |-> TRUE, optimize_fingering |-> TRUE,
      include_techniques |-> TRUE] : t \in tunings, c \in capos}

TConfigs == TConfigsOf({STANDARD}, {0, 2})

Timings == {[tempo |-> 120, beats |-> 4]}

InitM ==
    /\ conv = "M"
    /\ config \in MConfigs
    /\ timing \in Timings
    /\ midi_notes \in NoteSeqs(NoteDomain(MPitches, Starts, Durations, Velocities))
    /\ pc = "start"
    /\ tab_notes = <<>>
    /\ chords = <<>>
    /\ warnings = <<>>
    /\ position_cache = <<>>
    /\ results = <<>>
    /\ probe = NoProbe
    /\ resolved = <<>>
    /\ returned = <<>>
    /\ calls = <<>>
    /\ job = <<>>

InitT ==
    /\ conv = "T"
    /\ config \in TConfigs
    /\ timing \in Timings
    /\ midi_notes \in NoteSeqs(NoteDomain(TPitches, Starts, Durations, Velocities))
    /\ pc = "start"
    /\ tab_notes = <<>>
    /\ chords = <<>>
    /\ warnings = <<>>
    /\ position_cache = <<>>
    /\ results = <<>>
    /\ probe = NoProbe
    /\ resolved = <<>>
    /\ returned = <<>>
    /\ calls = <<>>
    /\ job = <<>>

Init == InitM \/ InitT

----------------------------------------------------------------------------
(* Actions of M.convert_midi_to_tab *)

M_ConvertToTabNotes ==
    /\ conv = "M"
    /\ pc = "start"
    /\ Len(results) < MaxCalls
    /\ LET r == MConvertToTabNotes(config, SortedByStart(midi_notes))
       IN  /\ tab_notes' = r.tab
           /\ warnings' = warnings \o r.warn
    /\ chords' = <<>>
    /\ pc' = "tab_notes"
    /\ UNCHANGED <<calls, job, conv, config, timing, midi_notes, position_cache, results, probe, resolved, returned>>

M_DetectChords ==
    /\ conv = "M"
    /\ pc = "tab_notes"
    /\ chords' = IF config.detect_chords
                 THEN MDetectChords(config, tab_notes) ELSE <<>>
    /\ pc' = "chords"
    /\ UNCHANGED <<calls, job, conv, config, timing, midi_notes, tab_notes, warnings,
                   position_cache, results, probe, resolved, returned>>

M_DetectTechniques ==
    /\ conv = "M"
    /\ pc = "chords"
    /\ tab_notes' = IF config.detect_techniques
                    THEN MDetectTechniques(tab_notes) ELSE tab_notes
    /\ pc' = "techniques"
    /\ UNCHANGED <<calls, job, conv, config, timing, midi_notes, chords, warnings,
                   position_cache, results, probe, resolved, returned>>

M_OrganizeMeasures ==
    /\ conv = "M"
    /\ pc = "techniques"
    /\ results' = Append(results, MResult(tab_notes, chords, timing))
    /\ pc' = "start"
    /\ UNCHANGED <<calls, job, conv, config, timing, midi_notes, tab_notes, chords,
                   warnings, position_cache, probe, resolved, returned>>

(* T.convert_midi_to_tab, one whole call on the instance *)
T_ConvertMidiToTab ==
    /\ conv = "T"
    /\ Len(results) < MaxCalls
    /\ LET r == TConvertMidiToTab(position_cache, config, midi_notes, timing)
       IN  /\ position_cache' = r.cache
           /\ midi_notes' = r.notes
           /\ warnings' = warnings \o r.warn
           /\ results' = Append(results, r.result)
    /\ UNCHANGED <<calls, job, conv, config, timing, pc, tab_notes, chords, probe, resolved, returned>>

Next ==
    \/ T_ConvertMidiToTab
    \/ M_ConvertToTabNotes
    \/ M_DetectChords
    \/ M_DetectTechniques
    \/ M_OrganizeMeasures

Spec == Init /\ [][Next]_vars

----------------------------------------------------------------------------
(* Conversions under configurations and timings of every kind, the
   degenerate ones included: no string, an open string below pitch 0, no
   beat in the measure, a tempo of zero or less *)

ConfigPitches == {40, 64}

ConfigStarts == {0, 2000}

NoStrings == <<>>

(* a capo that brings the lowest open string of STANDARD to pitch -1 *)
CapoBelowZero == 0 - 41

ConfigTimings ==
    {[tempo |-> t, beats |-> 4] : t \in {120, 0, 0 - 120}}
        \cup {[tempo |-> 120, beats |-> 0]}

InitConfig ==
    /\ \/ /\ conv = "M"
          /\ config \in MConfigsOf({STANDARD}, {0, CapoBelowZero})
                            \cup MConfigsOf({NoStrings}, {0})
       \/ /\ conv = "T"
          /\ config \in TConfigsOf({STANDARD}, {0, CapoBelowZero})
                            \cup TConfigsOf({NoStrings}, {0})
    /\ timing \in ConfigTimings
    /\ midi_notes \in NoteSeqs(NoteDomain(ConfigPitches, ConfigStarts,
                                          Durations, Velocities))
    /\ pc = "start"
    /\ tab_notes = <<>>
    /\ chords = <<>>
    /\ warnings = <<>>
    /\ position_cache = <<>>
    /\ results = <<>>
    /\ probe = NoProbe
    /\ resolved = <<>>
    /\ returned = <<>>
    /\ calls = <<>>
    /\ job = <<>>

SpecConfig == InitConfig /\ [][Next]_vars

----------------------------------------------------------------------------
(* The technique detectors on lists of fingered notes of every kind: same
   and different strings, frets one, two and three apart, notes that overlap,
   follow closely or follow late, louder, equal and softer *)

TechStrings == {2, 3}

MTechFrets == {3, 5}

MTechStarts == {0, 30, 510}

MTechVelocities == {80, 90}

TTechFrets == {3, 6}

TTechStarts == {0, 510}

TTechVelocities == {39, 40, 100, 101}

(* TabNote objects as _convert_to_tab_notes makes them *)
MTechNotes ==
    {[string |-> s, fret |-> f, start_time |-> t, duration |-> d,
      technique |-> "NORMAL", velocity |-> v, alternatives |-> <<>>] :
        s \in TechStrings, f \in MTechFrets, t \in MTechStarts,
        d \in Durations, v \in MTechVelocities}

(* GuitarNote objects as _convert_note makes them, in standard tuning *)
TTechNotes ==
    {[pitch |-> STANDARD[s] + f, start_time |-> t, end_time |-> t + d,
      string |-> s, fret |-> f, velocity |-> v, techniques |-> <<>>,
      is_chord_tone |-> FALSE, chord_shape |-> "",
      difficulty |-> CalculateDifficulty(s, f)] :
        s \in TechStrings, f \in TTechFrets, t \in TTechStarts,
        d \in Durations, v \in TTechVelocities}

(* lists in start_time order, as both converters build them *)
TechNoteSeqs(dom) ==
    {ns \in UNION {[1..n -> dom] : n \in 1..MaxTechNotes} :
        \A i \in 1..(Len(ns) - 1) : ns[i].start_time <= ns[i + 1].start_time}

InitTechniques ==
    /\ \/ /\ conv = "M"
          /\ config \in MConfigsOf({STANDARD}, {0})
          /\ tab_notes \in TechNoteSeqs(MTechNotes)
       \/ /\ conv = "T"
          /\ config \in TConfigsOf({STANDARD}, {0})
          /\ tab_notes \in TechNoteSeqs(TTechNotes)
    /\ timing \in Timings
    /\ midi_notes = <<>>
    /\ pc = "chords"
    /\ chords = <<>>
    /\ warnings = <<>>
    /\ position_cache = <<>>
    /\ results = <<>>
    /\ probe = NoProbe
    /\ resolved = <<>>
    /\ returned = <<>>
    /\ calls = <<>>
    /\ job = <<>>

(* T._detect_techniques(measure) *)
T_DetectTechniques ==
    /\ conv = "T"
    /\ pc = "chords"
    /\ tab_notes' = IF config.include_techniques
                    THEN TDetectTechniques(tab_notes) ELSE tab_notes
    /\ pc' = "techniques"
    /\ UNCHANGED <<calls, job, conv, config, timing, midi_notes, chords, warnings,
                   position_cache, results, probe, resolved, returned>>

NextTechniques ==
    \/ M_DetectTechniques
    \/ T_DetectTechniques

SpecTechniques == InitTechniques /\ [][NextTechniques]_vars

----------------------------------------------------------------------------
(* Conversions of notes that start on and next to the measure boundaries of
   tempo 120 in 4/4 (2.0 s and 4.0 s) *)

BoundaryPitches == {40, 64}

BoundaryStarts == {0, 1999, 2000, 3999, 4000}

InitBoundary ==
    /\ \/ conv = "M" /\ config \in MConfigs
       \/ conv = "T" /\ config \in TConfigs
    /\ timing \in Timings
    /\ midi_notes \in NoteSeqs(NoteDomain(BoundaryPitches, BoundaryStarts,
                                          Durations, Velocities))
    /\ pc = "start"
    /\ tab_notes = <<>>
    /\ chords = <<>>
    /\ warnings = <<>>
    /\ position_cache = <<>>
    /\ results = <<>>
    /\ probe = NoProbe
    /\ resolved = <<>>
    /\ returned = <<>>
    /\ calls = <<>>
    /\ job = <<>>

SpecBoundary == InitBoundary /\ [][Next]_vars

----------------------------------------------------------------------------
(* The chord detectors on notes that start within and around the 50 ms of
   simultaneity: the note_groups of M._detect_chords and the groups
   T._detect_chord_groups returns *)

GroupPitches == {40, 44, 47}

GroupStarts == {0, 30, 50, 60}

InitGroups ==
    /\ \/ conv = "M" /\ config \in MConfigsOf({STANDARD}, {0})
       \/ conv = "T" /\ config \in TConfigsOf({STANDARD}, {0})
    /\ timing \in Timings
    /\ midi_notes \in NoteSeqs(NoteDomain(GroupPitches, GroupStarts,
                                          Durations, Velocities))
    /\ pc = "start"
    /\ tab_notes = <<>>
    /\ chords = <<>>
    /\ warnings = <<>>
    /\ position_cache = <<>>
    /\ results = <<>>
    /\ probe = NoProbe
    /\ resolved = <<>>
    /\ returned = <<>>
    /\ calls = <<>>
    /\ job = <<>>

(* M._detect_chords(tab_notes), its note_groups kept in returned *)
M_GroupNotes ==
    /\ conv = "M"
    /\ pc = "tab_notes"
    /\ chords' = MDetectChords(config, tab_notes)
    /\ returned' = MNoteGroups(tab_notes)
    /\ pc' = "chords"
    /\ UNCHANGED <<calls, job, conv, config, timing, midi_notes, tab_notes, warnings,
                   position_cache, results, probe, resolved>>

(* T._detect_chord_groups(notes): the groups of note dicts it returns *)
T_DetectChordGroups ==
    /\ conv = "T"
    /\ pc = "start"
    /\ LET groups == TDetectChordGroups(midi_notes,
                                        [i \in 1..Len(midi_notes) |-> i])
       IN  returned' = [g \in 1..Len(groups) |->
                           [k \in 1..Len(groups[g]) |-> midi_notes[groups[g][k]]]]
    /\ pc' = "chords"
    /\ UNCHANGED <<calls, job, conv, config, timing, midi_notes, tab_notes, chords, warnings,
                   position_cache, results, probe, resolved>>

NextGroups ==
    \/ M_ConvertToTabNotes
    \/ M_GroupNotes
    \/ T_DetectChordGroups

SpecGroups == InitGroups /\ [][NextGroups]_vars

----------------------------------------------------------------------------
(* T._find_positions called by several threads on one converter, one
   statement at a time: the test of the cache, the read of the entry, the
   loop over the strings, the write of the entry, the return *)

CachePitches == {40, 45, 64}

IdleCall == [pc |-> "idle", pitch |-> 0, positions |-> <<>>, result |-> <<>>,
             hit |-> FALSE]

InitCache ==
    /\ conv = "T"
    /\ config \in TConfigsOf({STANDARD, DADGAD}, {0})
    /\ timing \in Timings
    /\ midi_notes = <<>>
    /\ pc = "start"
    /\ tab_notes = <<>>
    /\ chords = <<>>
    /\ warnings = <<>>
    /\ position_cache = <<>>
    /\ results = <<>>
    /\ probe = NoProbe
    /\ resolved = <<>>
    /\ returned = <<>>
    /\ calls = [t \in 1..MaxThreads |-> IdleCall]
    /\ job = <<>>

(* a thread calls _find_positions(pitch) *)
Find_Call(t) ==
    /\ calls[t].pc \in {"idle", "done"}
    /\ \E p \in CachePitches :
          calls' = [calls EXCEPT ![t] = [IdleCall EXCEPT !.pc = "check", !.pitch = p]]
    /\ UNCHANGED <<job, conv, config, timing, midi_notes, pc, tab_notes, chords,
                   warnings, position_cache, results, probe, resolved, returned>>

(* if pitch in self.position_cache: *)
Find_Check(t) ==
    /\ calls[t].pc = "check"
    /\ calls' = [calls EXCEPT ![t].pc =
                    IF calls[t].pitch \in DOMAIN position_cache
                    THEN "read" ELSE "compute"]
    /\ UNCHANGED <<job, conv, config, timing, midi_notes, pc, tab_notes, chords,
                   warnings, position_cache, results, probe, resolved, returned>>

(* return self.position_cache[pitch].copy() *)
Find_Read(t) ==
    /\ calls[t].pc = "read"
    /\ calls' = [calls EXCEPT ![t].pc = "done",
                              ![t].result = position_cache[calls[t].pitch],
                              ![t].hit = TRUE]
    /\ UNCHANGED <<job, conv, config, timing, midi_notes, pc, tab_notes, chords,
                   warnings, position_cache, results, probe, resolved, returned>>

(* the loop over the strings *)
Find_Compute(t) ==
    /\ calls[t].pc = "compute"
    /\ calls' = [calls EXCEPT ![t].pc = "write",
                              ![t].positions = ComputePositions(config, calls[t].pitch)]
    /\ UNCHANGED <<job, conv, config, timing, midi_notes, pc, tab_notes, chords,
                   warnings, position_cache, results, probe, resolved, returned>>

(* self.position_cache[pitch] = positions.copy() *)
Find_Write(t) ==
    /\ calls[t].pc = "write"
    /\ position_cache' =
          [q \in (DOMAIN position_cache) \cup {calls[t].pitch} |->
              IF q = calls[t].pitch THEN CacheEntry(calls[t].positions)
              ELSE position_cache[q]]
    /\ calls' = [calls EXCEPT ![t].pc = "return"]
    /\ UNCHANGED <<job, conv, config, timing, midi_notes, pc, tab_notes, chords,
                   warnings, results, probe, resolved, returned>>

(* return positions *)
Find_Return(t) ==
    /\ calls[t].pc = "return"
    /\ calls' = [calls EXCEPT ![t].pc = "done", ![t].result = calls[t].positions]
    /\ UNCHANGED <<job, conv, config, timing, midi_notes, pc, tab_notes, chords,
                   warnings, position_cache, results, probe, resolved, returned>>

NextCache ==
    \E t \in 1..MaxThreads :
        \/ Find_Call(t)
        \/ Find_Check(t)
        \/ Find_Read(t)
        \/ Find_Compute(t)
        \/ Find_Write(t)
        \/ Find_Return(t)

SpecCache == InitCache /\ [][NextCache]_vars

----------------------------------------------------------------------------
(* Conversions of notes that lie far apart on the neck (an open string next
   to the twelfth fret), so that _optimize_group_fingering moves notes *)

RefingerPitches == {42, 64, 76, 78}

RefingerStarts == {0, 600}

InitRefinger ==
    /\ \/ conv = "M" /\ config \in MConfigs
       \/ conv = "T" /\ config \in TConfigs
    /\ timing \in Timings
    /\ midi_notes \in NoteSeqs(NoteDomain(RefingerPitches, RefingerStarts,
                                          Durations, Velocities))
    /\ pc = "start"
    /\ tab_notes = <<>>
    /\ chords = <<>>
    /\ warnings = <<>>
    /\ position_cache = <<>>
    /\ results = <<>>
    /\ probe = NoProbe
    /\ resolved = <<>>
    /\ returned = <<>>
    /\ calls = <<>>
    /\ job = <<>>

SpecRefinger == InitRefinger /\ [][Next]_vars

----------------------------------------------------------------------------
(* Conversions of the notes of a chord (E, G sharp, B) struck around the
   measure boundary of tempo 120 in 4/4 *)

ChordBoundaryPitches == {40, 44, 47}

ChordBoundaryStarts == {0, 1999, 2000}

InitChordBoundary ==
    /\ \/ conv = "M" /\ config \in MConfigs
       \/ conv = "T" /\ config \in TConfigs
    /\ timing \in Timings
    /\ midi_notes \in NoteSeqs(NoteDomain(ChordBoundaryPitches, ChordBoundaryStarts,
                                          Durations, Velocities))
    /\ pc = "start"
    /\ tab_notes = <<>>
    /\ chords = <<>>
    /\ warnings = <<>>
    /\ position_cache = <<>>
    /\ results = <<>>
    /\ probe = NoProbe
    /\ resolved = <<>>
    /\ returned = <<>>
    /\ calls = <<>>
    /\ job = <<>>

SpecChordBoundary == InitChordBoundary /\ [][Next]_vars

----------------------------------------------------------------------------
(* ChordShapeDetector._matches_shape called on the positions of a group of
   notes and one template of COMMON_SHAPES after another *)

ShapeStrings == 1..4

ShapeFrets == {0, 2, 3}

(* GuitarNotes in standard tuning, as _assign_chord_fingerings builds them *)
ShapeNotes ==
    {[pitch |-> STANDARD[s] + f, start_time |-> 0, end_time |-> 500,
      string |-> s, fret |-> f, velocity |-> 80, techniques |-> <<>>,
      is_chord_tone |-> FALSE, chord_shape |-> "",
      difficulty |-> CalculateDifficulty(s, f)] :
        s \in ShapeStrings, f \in ShapeFrets}

InitShapes ==
    /\ conv = "T"
    /\ config \in TConfigsOf({STANDARD}, {0})
    /\ timing \in Timings
    /\ midi_notes = <<>>
    /\ pc = "start"
    /\ tab_notes \in UNION {[1..n -> ShapeNotes] : n \in 3..MaxShapeNotes}
    /\ chords = <<>>
    /\ warnings = <<>>
    /\ position_cache = <<>>
    /\ results = <<>>
    /\ probe = NoProbe
    /\ resolved = <<>>
    /\ returned = <<>>
    /\ calls = <<>>
    /\ job = <<>>

(* positions = [(n.string, n.fret) for n in notes] *)
PositionsOf(notes) == [i \in 1..Len(notes) |-> <<notes[i].string, notes[i].fret>>]

(* _matches_shape(positions, COMMON_SHAPES[k]): probe is k, returned holds
   "True", "False" or "ValueError" *)
T_MatchesShape ==
    /\ conv = "T"
    /\ \E k \in 1..Len(COMMON_SHAPES) :
          /\ probe' = k
          /\ returned' =
                IF MatchesShapeRaises(PositionsOf(tab_notes), COMMON_SHAPES[k].shape)
                THEN <<"ValueError">>
                ELSE IF MatchesShape(PositionsOf(tab_notes), COMMON_SHAPES[k].shape)
                THEN <<"True">>
                ELSE <<"False">>
    /\ UNCHANGED <<calls, job, conv, config, timing, midi_notes, pc, tab_notes, chords,
                   warnings, position_cache, results, resolved>>

NextShapes == T_MatchesShape

SpecShapes == InitShapes /\ [][NextShapes]_vars

(* detect_chord_shape(notes) on the same groups: probe is 0, returned holds
   the name returned, "None", or "ValueError" when _matches_shape raised *)
T_DetectChordShape ==
    /\ conv = "T"
    /\ probe' = 0
    /\ returned' =
          LET found == DetectChordShape(PositionsOf(tab_notes))
          IN  IF found.raised THEN <<"ValueError">>
              ELSE IF found.name = "" THEN <<"None">>
              ELSE <<found.name>>
    /\ UNCHANGED <<calls, job, conv, config, timing, midi_notes, pc, tab_notes, chords,
                   warnings, position_cache, results, resolved>>

NextDetect == T_DetectChordShape

SpecDetect == InitShapes /\ [][NextDetect]_vars

----------------------------------------------------------------------------
(* TranscriptionService: process_audio_file creates a job and its background
   task, the task walks through _process_audio_stages inside the try of
   _process_audio_job, and cancel_job marks a job.  job holds the clock
   datetime.now() reads and active_jobs; calls holds the position of each
   job's task.  No coroutine the task awaits suspends, so a task that has
   started runs to its end before the event loop runs anything else. *)

MaxJobs == 2

MaxTime == 4

NewJob == [stage |-> "DOWNLOADING", result |-> "", error |-> "", end_time |-> 0]

InitJobs ==
    /\ conv = "S"
    /\ config = <<>>
    /\ timing = <<>>
    /\ midi_notes = <<>>
    /\ pc = "start"
    /\ tab_notes = <<>>
    /\ chords = <<>>
    /\ warnings = <<>>
    /\ position_cache = <<>>
    /\ results = <<>>
    /\ probe = NoProbe
    /\ resolved = <<>>
    /\ returned = <<>>
    /\ calls = <<>>
    /\ job = [now |-> 0, active_jobs |-> <<>>]

(* a task is between its first statement and its last *)
TaskRunning(j) == calls[j].pc \notin {"created", "done"}

NoOtherTaskRunning(j) == \A k \in 1..Len(calls) : k # j => ~TaskRunning(k)

NoTaskRunning == \A k \in 1..Len(calls) : ~TaskRunning(k)

JobsUnchanged ==
    UNCHANGED <<conv, config, timing, midi_notes, pc, tab_notes, chords, warnings,
                position_cache, results, probe, resolved, returned>>

(* process_audio_file: a new TranscriptionJob in active_jobs and
   asyncio.create_task(_process_audio_job(job, ...)) *)
S_ProcessAudioFile ==
    /\ conv = "S"
    /\ NoTaskRunning
    /\ Len(job.active_jobs) < MaxJobs
    /\ job' = [job EXCEPT !.active_jobs = Append(@, NewJob)]
    /\ calls' = Append(calls, [pc |-> "created"])
    /\ JobsUnchanged

(* _process_audio_stages up to the await of transcribe_audio *)
S_StageTranscribing(j) ==
    /\ calls[j].pc = "created"
    /\ NoOtherTaskRunning(j)
    /\ job' = [job EXCEPT !.active_jobs[j].stage = "TRANSCRIBING"]
    /\ calls' = [calls EXCEPT ![j].pc = "transcribing"]
    /\ JobsUnchanged

(* transcribe_audio returned: up to the await of convert_midi_to_tab *)
S_StageConverting(j) ==
    /\ calls[j].pc = "transcribing"
    /\ job' = [job EXCEPT !.active_jobs[j].stage = "CONVERTING"]
    /\ calls' = [calls EXCEPT ![j].pc = "converting"]
    /\ JobsUnchanged

(* convert_midi_to_tab returned: up to the await of _analyze_theory *)
S_StageAnalyzing(j) ==
    /\ calls[j].pc = "converting"
    /\ job' = [job EXCEPT !.active_jobs[j].stage = "ANALYZING"]
    /\ calls' = [calls EXCEPT ![j].pc = "analyzing"]
    /\ JobsUnchanged

(* _analyze_theory returned (it catches its own exceptions): the result,
   COMPLETED and end_time *)
S_StageCompleted(j) ==
    /\ calls[j].pc = "analyzing"
    /\ job.now < MaxTime
    /\ job' = [job EXCEPT !.now = @ + 1,
                          !.active_jobs[j].result = "result",
                          !.active_jobs[j].stage = "COMPLETED",
                          !.active_jobs[j].end_time = job.now + 1]
    /\ calls' = [calls EXCEPT ![j].pc = "done"]
    /\ JobsUnchanged

(* transcribe_audio or convert_midi_to_tab raised: the except of
   _process_audio_job *)
S_JobExcept(j) ==
    /\ calls[j].pc \in {"transcribing", "converting"}
    /\ job.now < MaxTime
    /\ job' = [job EXCEPT !.now = @ + 1,
                          !.active_jobs[j].stage = "ERROR",
                          !.active_jobs[j].error = "exception",
                          !.active_jobs[j].end_time = job.now + 1]
    /\ calls' = [calls EXCEPT ![j].pc = "done"]
    /\ JobsUnchanged

(* cancel_job(job_id) of a job in active_jobs; the task is left alone *)
S_CancelJob(j) ==
    /\ NoTaskRunning
    /\ job.now < MaxTime
    /\ job' = [job EXCEPT !.now = @ + 1,
                          !.active_jobs[j].stage = "ERROR",
                          !.active_jobs[j].error = "Job cancelled by user",
                          !.active_jobs[j].end_time = job.now + 1]
    /\ UNCHANGED calls
    /\ JobsUnchanged

NextJobs ==
    \/ S_ProcessAudioFile
    \/ \E j \in 1..Len(calls) :
          \/ S_StageTranscribing(j)
          \/ S_StageConverting(j)
          \/ S_StageAnalyzing(j)
          \/ S_StageCompleted(j)
          \/ S_JobExcept(j)
          \/ S_CancelJob(j)

SpecJobs == InitJobs /\ [][NextJobs]_vars

----------------------------------------------------------------------------
(* The upload endpoint transcribe_upload.  calls holds the position of each
   request in the handler and what transcribe_audio returned to it; job
   holds the status the job store (Redis) has for the request's job, "none"
   before hset.  The awaits on the store and on the files suspend, so the
   requests interleave.  Opening or writing a file and a call of the store
   either succeed or raise; transcribe_audio returns success False for the
   exceptions of its body (basic_pitch_service.py 135-141). *)

MaxRequests == 2

NewRequest == [pc |-> "validate", result |-> "none", response |-> 0]

InitUpload ==
    /\ conv = "U"
    /\ config = <<>>
    /\ timing = <<>>
    /\ midi_notes = <<>>
    /\ pc = "start"
    /\ tab_notes = <<>>
    /\ chords = <<>>
    /\ warnings = <<>>
    /\ position_cache = <<>>
    /\ results = <<>>
    /\ probe = NoProbe
    /\ resolved = <<>>
    /\ returned = <<>>
    /\ calls = <<>>
    /\ job = <<>>

(* a POST /upload arrives *)
U_Receive ==
    /\ conv = "U"
    /\ Len(calls) < MaxRequests
    /\ calls' = Append(calls, NewRequest)
    /\ job' = Append(job, [status |-> "none"])
    /\ JobsUnchanged

(* the file type and size checks: HTTPException 400 before the try *)
U_Validate(r) ==
    /\ calls[r].pc = "validate"
    /\ \E valid \in BOOLEAN :
          calls' = [calls EXCEPT ![r] =
                        IF valid THEN [@ EXCEPT !.pc = "save_upload"]
                        ELSE [@ EXCEPT !.pc = "ended", !.response = 400]]
    /\ UNCHANGED job
    /\ JobsUnchanged

(* the upload written to temp_path *)
U_SaveUpload(r) ==
    /\ calls[r].pc = "save_upload"
    /\ \E raised \in BOOLEAN :
          calls' = [calls EXCEPT ![r].pc = IF raised THEN "except" ELSE "hset_processing"]
    /\ UNCHANGED job
    /\ JobsUnchanged

(* redis_client.hset(job, status PROCESSING) *)
U_RecordProcessing(r) ==
    /\ calls[r].pc = "hset_processing"
    /\ \E raised \in BOOLEAN :
          /\ calls' = [calls EXCEPT ![r].pc = IF raised THEN "except" ELSE "expire"]
          /\ job' = IF raised THEN job ELSE [job EXCEPT ![r].status = "PROCESSING"]
    /\ JobsUnchanged

(* redis_client.expire(job, 3600) *)
U_Expire(r) ==
    /\ calls[r].pc = "expire"
    /\ \E raised \in BOOLEAN :
          calls' = [calls EXCEPT ![r].pc = IF raised THEN "except" ELSE "transcribe"]
    /\ UNCHANGED job
    /\ JobsUnchanged

(* result = await transcribe_audio(...) and the branch on result["success"]
   and on "midi_data" in result *)
U_Transcribe(r) ==
    /\ calls[r].pc = "transcribe"
    /\ \E res \in {"success_midi", "success", "failure"} :
          calls' = [calls EXCEPT ![r].result = res,
                                 ![r].pc = CASE res = "success_midi" -> "save_midi"
                                             [] res = "success"      -> "hset_completed"
                                             [] OTHER                -> "hset_failed"]
    /\ UNCHANGED job
    /\ JobsUnchanged

(* open(midi_path, 'wb') and f.write(result["midi_data"]) *)
U_SaveMidi(r) ==
    /\ calls[r].pc = "save_midi"
    /\ \E raised \in BOOLEAN :
          calls' = [calls EXCEPT ![r].pc = IF raised THEN "except" ELSE "hset_completed"]
    /\ UNCHANGED job
    /\ JobsUnchanged

(* hset(job, status COMPLETED), add_task and the response returned *)
U_RecordCompleted(r) ==
    /\ calls[r].pc = "hset_completed"
    /\ \E raised \in BOOLEAN :
          IF raised
          THEN /\ calls' = [calls EXCEPT ![r].pc = "except"]
               /\ UNCHANGED job
          ELSE /\ calls' = [calls EXCEPT ![r].pc = "ended", ![r].response = 200]
               /\ job' = [job EXCEPT ![r].status = "COMPLETED"]
    /\ JobsUnchanged

(* hset(job, status FAILED) and the HTTPException raised inside the try *)
U_RecordFailed(r) ==
    /\ calls[r].pc = "hset_failed"
    /\ \E raised \in BOOLEAN :
          /\ calls' = [calls EXCEPT ![r].pc = "except"]
          /\ job' = IF raised THEN job ELSE [job EXCEPT ![r].status = "FAILED"]
    /\ JobsUnchanged

(* except Exception: the temp file removed and HTTPException 500 raised *)
U_Except(r) ==
    /\ calls[r].pc = "except"
    /\ calls' = [calls EXCEPT ![r].pc = "ended", ![r].response = 500]
    /\ UNCHANGED job
    /\ JobsUnchanged

NextUpload ==
    \/ U_Receive
    \/ \E r \in 1..Len(calls) :
          \/ U_Validate(r)
          \/ U_SaveUpload(r)
          \/ U_RecordProcessing(r)
          \/ U_Expire(r)
          \/ U_Transcribe(r)
          \/ U_SaveMidi(r)
          \/ U_RecordCompleted(r)
          \/ U_RecordFailed(r)
          \/ U_Except(r)

SpecUpload == InitUpload /\ [][NextUpload]_vars

----------------------------------------------------------------------------
(* The first notes of a piece converted one by one: M._convert_to_tab_notes,
   and the loop of T._convert_measure over the notes of the first measure *)

FirstPitches == 36..80

InitFirstNotes ==
    /\ \/ conv = "M" /\ config \in MConfigsOf(MTunings, {0, 2})
       \/ conv = "T" /\ config \in TConfigsOf(TTunings, {0, 2})
    /\ timing \in Timings
    /\ midi_notes \in UNION {[1..n -> NoteDomain(FirstPitches, {0}, Durations, Velocities)] :
                                n \in 1..MaxFirstNotes}
    /\ pc = "start"
    /\ tab_notes = <<>>
    /\ chords = <<>>
    /\ warnings = <<>>
    /\ position_cache = <<>>
    /\ results = <<>>
    /\ probe = NoProbe
    /\ resolved = <<>>
    /\ returned = <<>>
    /\ calls = <<>>
    /\ job = <<>>

(* step 4 of T._convert_measure on a measure holding all the notes *)
T_ConvertNotes ==
    /\ conv = "T"
    /\ pc = "start"
    /\ LET r == TMeasureNotes([cache |-> position_cache, notes |-> midi_notes],
                              config, [i \in 1..Len(midi_notes) |-> i])
       IN  /\ tab_notes' = r.notes
           /\ warnings' = warnings \o r.warn
           /\ position_cache' = r.cache
    /\ pc' = "tab_notes"
    /\ UNCHANGED <<calls, job, conv, config, timing, midi_notes, chords, results, probe,
                   resolved, returned>>

NextFirstNotes ==
    \/ M_ConvertToTabNotes
    \/ T_ConvertNotes

SpecFirstNotes == InitFirstNotes /\ [][NextFirstNotes]_vars

----------------------------------------------------------------------------
(* Notes converted one by one under tunings with and without two strings of
   the same open pitch, so that candidates of equal cost or score occur *)

InitTies ==
    /\ \/ conv = "M" /\ config \in MConfigsOf({STANDARD, DADGAD}, {0})
       \/ conv = "T" /\ config \in TConfigsOf({STANDARD, DADGAD}, {0})
    /\ timing \in Timings
    /\ midi_notes \in UNION {[1..n -> NoteDomain(FirstPitches, {0}, Durations, Velocities)] :
                                n \in 1..MaxFirstNotes}
    /\ pc = "start"
    /\ tab_notes = <<>>
    /\ chords = <<>>
    /\ warnings = <<>>
    /\ position_cache = <<>>
    /\ results = <<>>
    /\ probe = NoProbe
    /\ resolved = <<>>
    /\ returned = <<>>
    /\ calls = <<>>
    /\ job = <<>>

SpecTies == InitTies /\ [][NextFirstNotes]_vars

----------------------------------------------------------------------------
(* The resolvers called on their own, pitch after pitch, on one instance *)

MidiPitches == 0..127

ResolverCapos == {0, 2, 7}

InitResolver ==
    /\ \/ conv = "M" /\ config \in MConfigsOf({STANDARD, DROP_D}, ResolverCapos)
       \/ conv = "T" /\ config \in TConfigsOf({STANDARD, DADGAD}, ResolverCapos)
    /\ timing \in Timings
    /\ midi_notes = <<>>
    /\ pc = "start"
    /\ tab_notes = <<>>
    /\ chords = <<>>
    /\ warnings = <<>>
    /\ position_cache = <<>>
    /\ results = <<>>
    /\ probe = NoProbe
    /\ resolved = <<>>
    /\ returned = <<>>
    /\ calls = <<>>
    /\ job = <<>>

(* M._get_fret_positions(pitch) *)
M_GetFretPositions ==
    /\ conv = "M"
    /\ \E p \in MidiPitches :
          /\ probe' = p
          /\ resolved' = GetFretPositions(config, p)
    /\ UNCHANGED <<calls, job, conv, config, timing, midi_notes, pc, tab_notes, chords,
                   warnings, position_cache, results, returned>>

(* T._find_positions(pitch - capo_position), the call of _convert_note *)
T_FindPositions ==
    /\ conv = "T"
    /\ \E p \in MidiPitches :
          /\ \/ (p - config.capo) \in DOMAIN position_cache
             \/ Cardinality(DOMAIN position_cache) < MaxCached
          /\ probe' = p
          /\ resolved' = FindPositions(position_cache, config, p - config.capo)
          /\ position_cache' = CacheAfterFind(position_cache, config, p - config.capo)
    /\ UNCHANGED <<calls, job, conv, config, timing, midi_notes, pc, tab_notes, chords,
                   warnings, results, returned>>

NextResolver ==
    \/ M_GetFretPositions
    \/ T_FindPositions

SpecResolver == InitResolver /\ [][NextResolver]_vars

----------------------------------------------------------------------------
(* Vocabulary of the properties *)

(* the (string, fret) pairs that sound a pitch: 0 <= fret <= 24 and
   pitch = open_pitch[string] + capo + fret *)
ExactCandidates(cfg, pitch) ==
    {<<s, pitch - cfg.tuning[s] - cfg.capo>> :
        s \in {x \in 1..Len(cfg.tuning) :
                  /\ 0 <= pitch - cfg.tuning[x] - cfg.capo
                  /\ pitch - cfg.tuning[x] - cfg.capo <= 24}}

(* some string reaches the pitch at a fret of 0..24 *)
Reachable(cfg, pitch) ==
    \E s \in 1..Len(cfg.tuning) : \E f \in 0..24 :
        pitch = cfg.tuning[s] + cfg.capo + f

RECURSIVE Repeat(_, _)
Repeat(s, k) == IF k = 0 THEN <<>> ELSE s \o Repeat(s, k - 1)

RECURSIVE IsSubSeq(_, _)
IsSubSeq(a, b) ==
    IF a = <<>> THEN TRUE
    ELSE IF b = <<>> THEN FALSE
    ELSE IF Head(a) = Head(b) THEN IsSubSeq(Tail(a), Tail(b))
    ELSE IsSubSeq(a, Tail(b))

CountIn(s, x) == Cardinality({i \in 1..Len(s) : s[i] = x})

NonDecreasing(s) == \A i \in 1..(Len(s) - 1) : s[i] <= s[i + 1]

(* the notes of all measures of a result, read in order *)
OutputNotes(r) == Flatten([m \in 1..Len(r.measures) |-> r.measures[m].notes])

(* the chords of all measures of a result of M, read in order *)
OutputChords(r) == Flatten([m \in 1..Len(r.measures) |-> r.measures[m].chords])

(* the conversions of M begun so far *)
MCallsBegun == Len(results) + (IF pc = "start" THEN 0 ELSE 1)

(* the input as M._extract_midi_data hands it on *)
MInput == SortedByStart(midi_notes)

----------------------------------------------------------------------------
(* C1: for every MIDI pitch, tuning and capo, the candidates the resolver
   returns (M: _get_fret_positions; T: _find_positions on the capo-adjusted
   pitch, computed or read from the position cache) are exactly the pairs
   (string, fret) with 0 <= fret <= 24 and pitch = open_pitch[string] + capo
   + fret; the list is empty exactly when no string reaches the pitch. *)
C1_ResolverExact ==
    probe # NoProbe =>
        /\ conv = "M" => Range(resolved) = ExactCandidates(config, probe)
        /\ conv = "T" =>
              {<<resolved[i].string, resolved[i].fret>> : i \in 1..Len(resolved)}
                  = ExactCandidates(config, probe)
        /\ (resolved = <<>>) = ~Reachable(config, probe)

(* T has answered a pitch with several candidates from its cache, under a capo *)
C1_Witness ==
    /\ conv = "T" /\ probe # NoProbe /\ config.capo > 0
    /\ (probe - config.capo) \in DOMAIN position_cache
    /\ resolved = position_cache[probe - config.capo]
    /\ Len(resolved) >= 2

(* the pitches of the notes no string reaches, in input order *)
UnplayablePitches(cfg, notes) ==
    LET ps == [i \in 1..Len(notes) |-> notes[i].pitch]
    IN  SelectSeq(ps, LAMBDA p : ExactCandidates(cfg, p) = {})

(* the notes some string reaches, in input order *)
PlayableNotes(cfg, notes) ==
    SelectSeq(notes, LAMBDA n : ExactCandidates(cfg, n.pitch) # {})

(* C2: _convert_to_tab_notes of M gives one TabNote for each note with a
   candidate and none for a note without, which it reports by one warning
   without stopping: warnings + TabNotes = input notes; a single pitch 28 in
   standard tuning with capo 0 gives one warning and no TabNote. *)
C2_OneTabNoteOrWarning ==
    (conv = "M" /\ pc # "start") =>
        LET kept == PlayableNotes(config, MInput)
            lost == UnplayablePitches(config, MInput)
        IN  /\ Len(tab_notes) = Len(kept)
            /\ \A i \in 1..Len(kept) :
                  /\ tab_notes[i].start_time = kept[i].start
                  /\ tab_notes[i].velocity = kept[i].velocity
                  /\ kept[i].pitch = MTuning(config)[tab_notes[i].string]
                                        + tab_notes[i].fret
            /\ warnings = Repeat(lost, MCallsBegun)
            /\ Len(lost) + Len(tab_notes) = Len(midi_notes)
            /\ (config.tuning = STANDARD /\ config.capo = 0
                /\ Len(midi_notes) = 1 /\ midi_notes[1].pitch = 28)
                   => (Len(lost) = 1 /\ tab_notes = <<>>)

(* pitch 28 alone, standard tuning, capo 0: the first call has converted it *)
C2_Witness ==
    /\ conv = "M" /\ pc = "tab_notes" /\ results = <<>>
    /\ config.tuning = STANDARD /\ config.capo = 0
    /\ Len(midi_notes) = 1 /\ midi_notes[1].pitch = 28
    /\ warnings = <<28>> /\ tab_notes = <<>>

(* C3: in T a note with at least one physical position is never left out
   because max_position or difficulty_threshold rejects all its candidates:
   the notes of a returned tab are the input notes some string reaches. *)
C3_FilterNeverDropsPlayable ==
    conv = "T" =>
        \A c \in 1..Len(results) :
            results[c].status = "ok" =>
                LET out  == OutputNotes(results[c])
                    kept == PlayableNotes(config, SortedByStart(midi_notes))
                IN  [i \in 1..Len(out) |-> <<out[i].pitch, out[i].start_time>>]
                        = [i \in 1..Len(kept) |-> <<kept[i].pitch, kept[i].start>>]

(* C4: every note of a returned tab lies in the measure whose 0-based index n
   has n*d <= start_time < (n+1)*d, d the measure duration, also when whole
   measures hold no note. *)
C4_MeasureOfInterval ==
    \A c \in 1..Len(results) :
        results[c].status = "ok" =>
            LET d  == MeasureDuration(timing)
                ms == results[c].measures
            IN  \A m \in 1..Len(ms) : \A i \in 1..Len(ms[m].notes) :
                    /\ (m - 1) * d <= ms[m].notes[i].start_time
                    /\ ms[m].notes[i].start_time < m * d

(* C5: after _organize_measures of M every tab note is in exactly one
   measure's notes and every detected chord in exactly one measure's chords. *)
C5_OrganizePartitions ==
    (conv = "M" /\ pc = "start" /\ results # <<>>) =>
        LET r  == results[Len(results)]
            on == OutputNotes(r)
            oc == OutputChords(r)
        IN  /\ Len(on) = Len(tab_notes)
            /\ \A x \in Range(tab_notes) \cup Range(on) :
                  CountIn(on, x) = CountIn(tab_notes, x)
            /\ Len(oc) = Len(chords)
            /\ \A x \in Range(chords) \cup Range(oc) :
                  CountIn(oc, x) = CountIn(chords, x)

(* a call of M has returned several measures, a chord among them *)
C5_Witness ==
    /\ conv = "M" /\ pc = "start" /\ results # <<>>
    /\ Len(results[Len(results)].measures) >= 2
    /\ chords # <<>>
    /\ OutputChords(results[Len(results)]) = chords

(* C6: in both converters the notes of a returned tab, read measure by
   measure, are in non-decreasing start_time order and keep the order of the
   input notes. *)
C6_ChronologicalOrder ==
    \A c \in 1..Len(results) :
        results[c].status = "ok" =>
            LET out == OutputNotes(results[c])
                src == SortedByStart(midi_notes)
            IN  /\ NonDecreasing([i \in 1..Len(out) |-> out[i].start_time])
                /\ conv = "M" =>
                      IsSubSeq([i \in 1..Len(out) |->
                                   <<MTuning(config)[out[i].string] + out[i].fret,
                                     out[i].start_time>>],
                               [i \in 1..Len(src) |-> <<src[i].pitch, src[i].start>>])
                /\ conv = "T" =>
                      IsSubSeq([i \in 1..Len(out) |-> <<out[i].pitch, out[i].start_time>>],
                               [i \in 1..Len(src) |-> <<src[i].pitch, src[i].start>>])

(* T has returned two measures or more, one of them with two notes or more
   that start at different times *)
C6_Witness ==
    /\ conv = "T" /\ results # <<>> /\ results[1].status = "ok"
    /\ Len(results[1].measures) >= 2
    /\ \E m \in 1..Len(results[1].measures) :
          LET ns == results[1].measures[m].notes
          IN  Len(ns) >= 2 /\ ns[1].start_time < ns[Len(ns)].start_time

(* C7: three tab notes on three distinct strings that start within 50 ms of
   each other, no other note starting within 50 ms of them, give exactly one
   chord of _detect_chords, made of those three, whatever their pitches. *)
C7_ThreeNotesOneChord ==
    (conv = "M" /\ pc = "chords") =>
        \A i, j, k \in 1..Len(tab_notes) :
            (/\ i < j /\ j < k
             /\ Cardinality({tab_notes[i].string, tab_notes[j].string,
                             tab_notes[k].string}) = 3
             /\ \A a, b \in {i, j, k} :
                   Abs(tab_notes[a].start_time - tab_notes[b].start_time) < 50
             /\ \A l \in (1..Len(tab_notes)) \ {i, j, k} : \A a \in {i, j, k} :
                   Abs(tab_notes[l].start_time - tab_notes[a].start_time) > 50)
            => Cardinality({x \in 1..Len(chords) :
                   chords[x].tab_positions =
                       << <<tab_notes[i].string, tab_notes[i].fret>>,
                          <<tab_notes[j].string, tab_notes[j].fret>>,
                          <<tab_notes[k].string, tab_notes[k].fret>> >>}) = 1

(* C8: every chord M.convert_midi_to_tab reports has at least 3 members, on
   pairwise distinct strings. *)
C8_ChordsOnDistinctStrings ==
    conv = "M" =>
        \A c \in 1..Len(results) :
            LET oc == OutputChords(results[c])
            IN  \A x \in 1..Len(oc) :
                    LET tp == oc[x].tab_positions
                    IN  /\ Len(tp) >= 3
                        /\ \A a, b \in 1..Len(tp) : a # b => tp[a][1] # tp[b][1]

(* C9: every note either converter gives out has a string in 1..string_count
   and a fret in 0..24: the tab notes of M at every stage and in what it
   returns, and the notes T returns, re-fingered or not. *)
C9_StringAndFretInRange ==
    LET InRange(n) == /\ n.string \in 1..Len(config.tuning)
                      /\ 0 <= n.fret /\ n.fret <= 24
    IN  /\ \A i \in 1..Len(tab_notes) : InRange(tab_notes[i])
        /\ \A c \in 1..Len(results) :
              LET out == OutputNotes(results[c])
              IN  \A i \in 1..Len(out) : InRange(out[i])

(* _optimize_group_fingering has moved the first note of a measure: alone it
   is selected on the open string, pitch 64 is given out on string 4 fret 9 *)
C9_Witness ==
    /\ conv = "T" /\ config.capo = 0 /\ results # <<>>
    /\ \E m \in 1..Len(results[1].measures) :
          LET ns == results[1].measures[m].notes
          IN  /\ Len(ns) >= 2
              /\ ns[1].pitch = 64 /\ ns[1].string = 4 /\ ns[1].fret = 9

(* C10: a conversion repeated on the same notes and configuration returns the
   same tab: every call on the instance returns what the first returned, the
   later calls of T reading the position cache the earlier ones filled. *)
C10_RepeatedCallSameOutput ==
    \A c \in 1..Len(results) : results[c] = results[1]

(* T has been called twice, the second call finding the cache filled, and has
   returned notes *)
C10_Witness ==
    /\ conv = "T" /\ Len(results) >= 2
    /\ DOMAIN position_cache # {}
    /\ results[2].status = "ok"
    /\ Len(OutputNotes(results[2])) >= 2

----------------------------------------------------------------------------
(* a configuration the conversion cannot mean anything under: no string, an
   effective open-string pitch below 0, or no beat in the measure *)
InvalidConfiguration(cfg, tm) ==
    \/ cfg.tuning = <<>>
    \/ \E i \in 1..Len(cfg.tuning) : cfg.tuning[i] + cfg.capo < 0
    \/ tm.beats <= 0

(* C11: a conversion under an invalid configuration (empty tuning, capo
   giving a negative open pitch, zero beats per measure) ends in an error
   before any note is processed: no call returns a tab, no note is converted
   and none is dropped with a warning. *)
C11_InvalidConfigRejected ==
    InvalidConfiguration(config, timing) =>
        /\ \A c \in 1..Len(results) : results[c].status = "error"
        /\ tab_notes = <<>>
        /\ warnings = <<>>

(* C12: a conversion with a tempo of zero or less ends in an error and
   returns no measures, whatever the notes are, an empty list included. *)
C12_DegenerateTempoRejected ==
    timing.tempo <= 0 =>
        \A c \in 1..Len(results) :
            /\ results[c].status = "error"
            /\ results[c].measures = <<>>

----------------------------------------------------------------------------
(* the most recent earlier note on the string of notes[i]; 0 if there is none *)
SameStringPred(notes, i) ==
    LET earlier == {j \in 1..(i - 1) : notes[j].string = notes[i].string}
    IN  IF earlier = {} THEN 0
        ELSE CHOOSE j \in earlier : \A k \in earlier : k <= j

(* _detect_techniques has run on the list *)
TechniquesDetected == pc = "techniques" /\ results = <<>> /\ midi_notes = <<>>

(* C13: in M._detect_techniques a note that follows a note on the same
   string, begins less than 100 ms after that note ends and is softer, is a
   hammer-on if its fret is higher and a pull-off if it is lower (fret 5 at
   0.0-0.5 s then fret 3 at 0.51 s, softer: pull-off). *)
C13_HammerPullByGap ==
    (conv = "M" /\ TechniquesDetected) =>
        \A i \in 2..Len(tab_notes) :
            LET prev == tab_notes[i - 1]
                curr == tab_notes[i]
            IN  (/\ prev.string = curr.string
                 /\ curr.start_time - (prev.start_time + prev.duration) < 100
                 /\ curr.velocity < prev.velocity)
                => /\ curr.fret > prev.fret => curr.technique = "HAMMER_ON"
                   /\ curr.fret < prev.fret => curr.technique = "PULL_OFF"

(* the tags of a note: the one technique of a TabNote of M, the techniques
   list of a GuitarNote of T *)
TagsOf(note) ==
    IF conv = "M" THEN {note.technique} ELSE Range(note.techniques)

(* what the detector gives curr when prev is the note just before it *)
TagsAfter(prev, curr) ==
    IF conv = "M"
    THEN {MTechniqueAt(<<prev, [curr EXCEPT !.technique = "NORMAL"]>>, 2)}
             \ {"NORMAL"}
    ELSE Range(TTechniquesAt(<<prev, curr>>, 2))
             \cap {"HAMMER_ON", "PULL_OFF", "SLIDE_UP", "SLIDE_DOWN"}

(* C18: a technique is decided against the most recent earlier note on the
   same string: when that note and this one meet the hammer-on, pull-off or
   slide conditions this note gets the technique, even with notes on other
   strings between the two; the first note gets none of these. *)
C18_AgainstSameStringPredecessor ==
    TechniquesDetected =>
        /\ \A i \in 2..Len(tab_notes) :
              LET p == SameStringPred(tab_notes, i)
              IN  p # 0 => TagsAfter(tab_notes[p], tab_notes[i])
                              \subseteq TagsOf(tab_notes[i])
        /\ TagsOf(tab_notes[1])
              \cap {"HAMMER_ON", "PULL_OFF", "SLIDE_UP", "SLIDE_DOWN"} = {}

(* C19: in both converters a note tagged hammer-on or pull-off is softer
   than the note before it on the same string. *)
C19_HammerPullOnlySofter ==
    TechniquesDetected =>
        \A i \in 1..Len(tab_notes) :
            (TagsOf(tab_notes[i]) \cap {"HAMMER_ON", "PULL_OFF"} # {})
            => LET p == SameStringPred(tab_notes, i)
               IN  /\ p # 0
                   /\ tab_notes[i].velocity < tab_notes[p].velocity

(* C20: in T._detect_techniques a note is tagged palm-mute exactly when its
   velocity is below 40 and harmonic exactly when its fret is one of 3, 4,
   5, 7, 12 and its velocity is above 100, whatever its neighbours and its
   other tags are. *)
C20_PalmMuteAndHarmonicByNote ==
    (conv = "T" /\ TechniquesDetected) =>
        \A i \in 1..Len(tab_notes) :
            /\ ("PALM_MUTE" \in Range(tab_notes[i].techniques))
                   = (tab_notes[i].velocity < 40)
            /\ ("HARMONIC" \in Range(tab_notes[i].techniques))
                   = (/\ tab_notes[i].fret \in {3, 4, 5, 7, 12}
                      /\ tab_notes[i].velocity > 100)

(* T has tagged three notes: a pull-off that is a harmonic too, a note of
   velocity 40 without palm mute and a note of velocity 39 with it *)
C20_Witness ==
    /\ conv = "T" /\ TechniquesDetected
    /\ Len(tab_notes) = 3
    /\ \E i \in 1..3 : {"PULL_OFF", "HARMONIC"} \subseteq Range(tab_notes[i].techniques)
    /\ \E i \in 1..3 : /\ tab_notes[i].velocity = 40
                        /\ "PALM_MUTE" \notin Range(tab_notes[i].techniques)
    /\ \E i \in 1..3 : /\ tab_notes[i].velocity = 39
                        /\ "PALM_MUTE" \in Range(tab_notes[i].techniques)

MinFret(candidates) == MinOfSet({c[2] : c \in candidates})

(* the pitch of the first note that got a tab note *)
FirstPlayablePitch ==
    IF conv = "M" THEN PlayableNotes(config, MInput)[1].pitch
    ELSE tab_notes[1].pitch

(* C14: with prefer_low_positions set and no position chosen before, the
   first playable note gets the candidate of the lowest fret, in both
   converters; in standard tuning with capo 0 a single note of pitch 64 has
   the open string of pitch 64 among its candidates and is put on it. *)
C14_FirstNoteLowestFret ==
    (pc = "tab_notes" /\ config.prefer_low_positions) =>
        /\ tab_notes # <<>> =>
              /\ <<tab_notes[1].string, tab_notes[1].fret>>
                    \in ExactCandidates(config, FirstPlayablePitch)
              /\ tab_notes[1].fret
                    = MinFret(ExactCandidates(config, FirstPlayablePitch))
        /\ (config.tuning = STANDARD /\ config.capo = 0
            /\ Len(midi_notes) = 1 /\ midi_notes[1].pitch = 64)
               => /\ \E s \in 1..Len(config.tuning) :
                                      /\ config.tuning[s] = 64
                                      /\ <<s, 0>> \in ExactCandidates(config, 64)
                  /\ Len(tab_notes) = 1
                  /\ tab_notes[1].fret = 0
                  /\ config.tuning[tab_notes[1].string] = 64

(* M, standard tuning, capo 0: pitch 36 was skipped and pitch 64, the first
   playable note, is on the open string with its other candidates kept as
   alternatives *)
C14_Witness ==
    /\ conv = "M" /\ pc = "tab_notes"
    /\ config.tuning = STANDARD /\ config.capo = 0
    /\ Len(midi_notes) = 2
    /\ midi_notes[1].pitch = 36 /\ midi_notes[2].pitch = 64
    /\ Len(tab_notes) = 1
    /\ tab_notes[1].fret = 0 /\ tab_notes[1].string = 6
    /\ Len(tab_notes[1].alternatives) >= 2

(* the start times of the notes the segmenter places: M._organize_measures
   the tab notes, T._group_into_measures the input notes *)
SegmentedStarts ==
    IF conv = "M"
    THEN {n.start : n \in Range(PlayableNotes(config, MInput))}
    ELSE {n.start : n \in Range(midi_notes)}

(* the number a returned measure carries *)
NumberOf(measure) ==
    IF conv = "M" THEN measure.measure_number ELSE measure.number

(* the notes lie in the measures of index 0, 1, .., k with none left empty *)
ConsecutiveFromFirst(starts, d) ==
    LET idx == {t \div d : t \in starts}
    IN  idx = 0..(Cardinality(idx) - 1)

(* C15: measure intervals are half-open. When the notes occupy consecutive
   measures from the first one on, the n-th returned measure holds the notes
   with (n-1)*d <= start_time < n*d: a note starting before the boundary
   stays, a note starting on it goes to the next measure; at tempo 120 in
   4/4 a note at 1.999 s is in the first measure, one at 2.000 s in the
   second. *)
C15_HalfOpenMeasures ==
    \A c \in 1..Len(results) :
        (results[c].status = "ok"
         /\ ConsecutiveFromFirst(SegmentedStarts, MeasureDuration(timing))) =>
            LET d  == MeasureDuration(timing)
                ms == results[c].measures
            IN  \A m \in 1..Len(ms) :
                    /\ NumberOf(ms[m]) = m
                    /\ \A i \in 1..Len(ms[m].notes) :
                          /\ (m - 1) * d <= ms[m].notes[i].start_time
                          /\ ms[m].notes[i].start_time < m * d

(* a tab with a note at 1.999 s in its first measure, a note at 2.000 s in
   its second and a note at 4.000 s in its third *)
C15_Witness ==
    /\ results # <<>>
    /\ results[1].status = "ok"
    /\ Len(results[1].measures) = 3
    /\ \E n \in Range(results[1].measures[1].notes) : n.start_time = 1999
    /\ \E n \in Range(results[1].measures[2].notes) : n.start_time = 2000
    /\ \E n \in Range(results[1].measures[3].notes) : n.start_time = 4000

(* the start time of a member of a group: a TabNote of M, a note dict of T *)
StartOf(note) == IF conv = "M" THEN note.start_time ELSE note.start

(* C16: in every group of simultaneous notes the chord detectors form, any
   two members start at most 50 ms apart; notes each within 50 ms of the
   next but spanning more than 50 ms are not merged into one group. *)
C16_GroupWithinTolerance ==
    pc = "chords" =>
        \A g \in 1..Len(returned) :
            \A a, b \in Range(returned[g]) :
                Abs(StartOf(a) - StartOf(b)) <= 50

(* the template with offset added to its non-zero frets *)
OffsetTemplate(shape, offset) ==
    {<<shape[i][1], IF shape[i][2] > 0 THEN shape[i][2] + offset ELSE 0>> :
        i \in 1..Len(shape)}

(* C17: _matches_shape(positions, shape) returns True exactly when the set
   of positions equals the template with one offset added to all its
   non-zero frets, and False for every other list, a list that repeats a
   position included. *)
C17_MatchesShapeSetEquality ==
    probe # NoProbe =>
        LET positions == PositionsOf(tab_notes)
            shape     == COMMON_SHAPES[probe].shape
        IN  returned =
                IF \E offset \in (0 - MaxFret)..MaxFret :
                       Range(positions) = OffsetTemplate(shape, offset)
                THEN <<"True">> ELSE <<"False">>

(* what M minimises for the i-th tab note: the fret when no position was
   chosen before, the cost of the move from the previous position otherwise *)
MRankOf(i, pos) ==
    IF i = 1
    THEN pos[2]
    ELSE MPositionCost2(config, pos,
                        <<tab_notes[i - 1].string, tab_notes[i - 1].fret>>, FALSE)

(* the candidates T chose the i-th note of the measure from *)
TCandidatesOf(i) ==
    Range(FilterPositions(config,
              ComputePositions(config, tab_notes[i].pitch - config.capo)))

(* C21: among the candidates of equal minimal cost (M) or equal maximal
   score (T) the selectors take the one of the lowest string index, also
   when two strings have the same open pitch. *)
C21_TiesToLowestString ==
    pc = "tab_notes" =>
        \A i \in 1..Len(tab_notes) :
            IF conv = "M"
            THEN LET pitch  == PlayableNotes(config, MInput)[i].pitch
                     chosen == <<tab_notes[i].string, tab_notes[i].fret>>
                 IN  \A q \in ExactCandidates(config, pitch) :
                         \/ MRankOf(i, q) > MRankOf(i, chosen)
                         \/ MRankOf(i, q) = MRankOf(i, chosen) /\ q[1] >= chosen[1]
            ELSE LET previous_notes == SubSeq(tab_notes, 1, i - 1)
                     mine == TPositionScore(config,
                                 [string     |-> tab_notes[i].string,
                                  fret       |-> tab_notes[i].fret,
                                  difficulty |-> tab_notes[i].difficulty,
                                  is_open    |-> tab_notes[i].fret = 0,
                                  position   |-> GetHandPosition(tab_notes[i].fret)],
                                 previous_notes)
                 IN  \A q \in TCandidatesOf(i) :
                         \/ TPositionScore(config, q, previous_notes) < mine
                         \/ /\ TPositionScore(config, q, previous_notes) = mine
                            /\ q.string >= tab_notes[i].string

(* T under the tuning with two strings of pitch 45: pitch 47 is fret 2 on
   both, the scores are equal and the note is on string 2, not 5 *)
C21_Witness ==
    /\ conv = "T" /\ pc = "tab_notes"
    /\ config.tuning = DADGAD
    /\ Len(midi_notes) = 1 /\ midi_notes[1].pitch = 47
    /\ Len(tab_notes) = 1
    /\ tab_notes[1].string = 2 /\ tab_notes[1].fret = 2
    /\ \E q \in TCandidatesOf(1) :
          /\ q.string = 5
          /\ TPositionScore(config, q, <<>>)
                = TPositionScore(config, CHOOSE r \in TCandidatesOf(1) : r.string = 2, <<>>)

(* C22: position_cache is a transparent memo. Every finished call of
   _find_positions, served from the cache or not, and under every
   interleaving of the calls of several threads, returned the list computed
   afresh for its pitch, and every entry of the cache is that list. *)
C22_CacheTransparent ==
    /\ \A t \in DOMAIN calls :
          calls[t].pc = "done"
              => calls[t].result = ComputePositions(config, calls[t].pitch)
    /\ \A q \in DOMAIN position_cache :
          position_cache[q] = ComputePositions(config, q)

(* one call was served from the cache while another call, which had missed
   the same pitch before the entry was written, is about to write it again *)
C22_Witness ==
    \E t, u \in DOMAIN calls :
        /\ calls[t].pc = "done" /\ calls[t].hit
        /\ Len(calls[t].result) >= 2
        /\ calls[u].pc = "write"
        /\ calls[u].pitch = calls[t].pitch

(* C23: every note in the output of TabConverter.convert_midi_to_tab sounds
   the pitch it was transcribed with: pitch = tuning[string] + capo_position
   + fret, for every capo_position >= 0, with optimize_fingering and
   detect_chords enabled. *)
C23_OutputSoundsItsPitch ==
    (conv = "T" /\ config.capo >= 0 /\ config.optimize_fingering
     /\ config.detect_chords) =>
        \A c \in 1..Len(results) :
            results[c].status = "ok" =>
                \A n \in Range(OutputNotes(results[c])) :
                    n.pitch = config.tuning[n.string] + config.capo + n.fret

(* C27: every note in the output of TabConverter.convert_midi_to_tab passes
   the preference filter, also after _optimize_measure_fingering: its fret
   is 0 or at most max_position, its difficulty at most
   difficulty_threshold. *)
C27_OutputPassesFilter ==
    conv = "T" =>
        \A c \in 1..Len(results) :
            results[c].status = "ok" =>
                \A n \in Range(OutputNotes(results[c])) :
                    /\ n.fret = 0 \/ n.fret <= config.max_position
                    /\ n.difficulty <= config.difficulty_threshold

(* C24: for every TabNote of M._convert_to_tab_notes the chosen (string,
   fret) is one of the note's candidates, is not among its alternatives,
   and together with the alternatives it is exactly the candidate set. *)
C24_ChosenAndAlternatives ==
    (conv = "M" /\ pc = "tab_notes") =>
        \A i \in 1..Len(tab_notes) :
            LET pitch      == PlayableNotes(config, MInput)[i].pitch
                candidates == ExactCandidates(config, pitch)
                chosen     == <<tab_notes[i].string, tab_notes[i].fret>>
                alts       == tab_notes[i].alternatives
            IN  /\ chosen \in candidates
                /\ chosen \notin Range(alts)
                /\ Range(alts) \cup {chosen} = candidates
                /\ Len(alts) + 1 = Cardinality(candidates)

(* M has converted two notes; the second, chosen by its distance from the
   first, is not on its lowest fret and has three alternatives or more *)
C24_Witness ==
    /\ conv = "M" /\ pc = "tab_notes"
    /\ Len(tab_notes) = 2
    /\ Len(tab_notes[2].alternatives) >= 3
    /\ \E a \in Range(tab_notes[2].alternatives) : a[2] < tab_notes[2].fret

(* a note T._convert_note finds a position for *)
TPlayable(note) ==
    FilterPositions(config, ComputePositions(config, note.pitch - config.capo)) # <<>>

(* the input of T as it was before the calls, without its unplayable notes *)
TPlayableInput ==
    SelectSeq([i \in 1..Len(midi_notes) |->
                  [midi_notes[i] EXCEPT !.chord_shape = "", !.is_chord_tone = FALSE]],
              TPlayable)

(* measure number, start, string and fret of the notes of a tab of T *)
Placement(r) ==
    Flatten([m \in 1..Len(r.measures) |->
                [i \in 1..Len(r.measures[m].notes) |->
                    <<r.measures[m].number, r.measures[m].notes[i].start_time,
                      r.measures[m].notes[i].pitch, r.measures[m].notes[i].string,
                      r.measures[m].notes[i].fret>>]])

(* C25: the notes T cannot place have no effect on the rest of its output:
   the input and the input without its unplayable notes give the same
   measure number, string and fret for every playable note and the same
   number of measures. *)
C25_UnplayableNotesNoEffect ==
    (conv = "T" /\ results # <<>> /\ results[1].status = "ok") =>
        LET alone == TConvertMidiToTab(<<>>, config, TPlayableInput, timing).result
        IN  /\ alone.status = "ok"
            /\ Len(alone.measures) = Len(results[1].measures)
            /\ Placement(alone) = Placement(results[1])

(* the groups of tab notes _detect_chords made a chord of *)
ChordGroups ==
    SelectSeq(MNoteGroups(tab_notes), LAMBDA g : MChordOfGroup(config, g).found)

(* C26: in the output of M.convert_midi_to_tab every chord is listed in the
   measure that holds all of its member notes: the members of a chord are
   in one measure, and no chord is attached to another measure. *)
C26_ChordWithItsNotes ==
    (conv = "M" /\ pc = "start" /\ results # <<>>
     /\ results[Len(results)].status = "ok") =>
        LET ms == results[Len(results)].measures
        IN  \A k \in 1..Len(ChordGroups) :
                LET g == ChordGroups[k]
                    c == MChordOfGroup(config, g)
                IN  /\ \E m \in 1..Len(ms) : Range(g) \subseteq Range(ms[m].notes)
                    /\ \A m \in 1..Len(ms) :
                          (\E x \in Range(ms[m].chords) :
                               x.time = c.time /\ x.tab_positions = c.tab_positions)
                          => Range(g) \subseteq Range(ms[m].notes)

(* C28: detect_chord_shape returns a shape name or None for every group of
   notes and never raises, a group of open-string positions of the size of
   a template included. *)
C28_DetectChordShapeNeverRaises ==
    (probe = 0 /\ returned # <<>>) => returned[1] # "ValueError"

(* C29: once a job's stage is ERROR or COMPLETED, no later step of the
   job's background task changes its stage, result or end_time. *)
C29_TerminalStagesStay ==
    [][\A j \in 1..Len(calls) :
          (/\ job.active_jobs[j].stage \in {"COMPLETED", "ERROR"}
           /\ calls'[j].pc # calls[j].pc)
          => /\ job'.active_jobs[j].stage = job.active_jobs[j].stage
             /\ job'.active_jobs[j].result = job.active_jobs[j].result
             /\ job'.active_jobs[j].end_time = job.active_jobs[j].end_time]_vars

(* C30: every job the upload endpoint recorded with status PROCESSING is
   recorded as COMPLETED or FAILED when the request has ended, on every
   path through the handler. *)
C30_NoJobLeftProcessing ==
    conv = "U" =>
        \A r \in 1..Len(calls) :
            (calls[r].pc = "ended" /\ job[r].status # "none")
            => job[r].status \in {"COMPLETED", "FAILED"}

====
